---- MODULE Spec2Model ----
(***************************************************************************)
(* Model of the swe-mockup benchmarks: the block-partitioned sandwich      *)
(* estimator cov_b and the three aggregation programs that compute it.     *)
(*   Variant A  src/bin/benchmark-multi.rs   repetitions in parallel, one  *)
(*              private cov_b each, features in parallel per block         *)
(*   Variant B  src/bin/benchmark-single.rs  outer pool over blocks, inner *)
(*              pool over features, mutex + two condition variables        *)
(*   Variant C  src/bin/benchmark.rs         outer pool over blocks, inner *)
(*              pool sends per-feature updates over a bounded channel to   *)
(*              one aggregator thread                                      *)
(* Observations, predictors and features are numbered from 1 (the source   *)
(* counts from 0); block ids are the source's: 0 .. n_blocks. Matrix       *)
(* entries are integers, so sums are exact.                                *)
(***************************************************************************)
EXTENDS Integers, Sequences, FiniteSets

(***************************************************************************)
(* Sizes. The programs fix n_obs = 8192, n_feat = 55278, n_pred = 8,       *)
(* block sizes 1 .. 8 and n_rep = 1 (20 in benchmark-multi); the model     *)
(* keeps the minimum block size and scales the others down.                *)
(***************************************************************************)
n_obs == 2
n_feat == 2
n_pred == 2
min_block_size == 1
max_block_size == 3
n_rep == 2
\* The largest size a caller of BlockSizes passes.
MaxSize == 5
\* The largest entry, in absolute value, of the vectors a quadratic form is
\* evaluated on.
QuadCoeff == 2

\* The runs explored: a program and the hardware concurrency it finds. 2, 3
\* and 5 cpus give (ncpus_outer, ncpus_inner) = (1, 1), (1, 2) and (2, 3).
\* benchmark.rs is run with 2 cpus (the chunk floor divides by 0) and with 3
\* (channel capacity 3, two senders); benchmark-multi.rs with 2 workers here
\* and with 3 as well when it is explored alone.
Configs ==
    {<<"A", 2>>,
     <<"B", 2>>, <<"B", 3>>, <<"B", 5>>,
     <<"C", 2>>, <<"C", 3>>}

ConfigsA == {<<"A", 2>>, <<"A", 3>>}

\* The build profiles explored: benchmark.rs has the one addition that can
\* overflow (the aggregator's pct += 1 on a u8), which panics in a build with
\* overflow checks (cargo's dev profile) and wraps in one without (release).
Builds(v) == IF v = "C" THEN BOOLEAN ELSE {FALSE}

Obs == 1 .. n_obs
Feats == 1 .. n_feat
Preds == 1 .. n_pred
Reps == 1 .. n_rep

VARIABLES
    variant,              \* which program runs
    ncpus,                \* available_parallelism() / num_cpus::get()
    overflow_checks,      \* the build panics on integer overflow (it wraps if not)
    resid,                \* observations x features
    x_pinv,               \* predictors x observations
    block_ids,            \* label of every observation
    block_id,             \* generator: last id assigned
    block_start,          \* generator: observations assigned so far
    n_blocks,             \* the last block id
    pcMain,               \* position of the main thread
    rep,                  \* repetition being run (B, C)
    cov_b,                \* the accumulator (B, C)
    outer_pool_reserved,  \* B: CovBMutexInner.outer_pool_reserved
    inner_pool_blocks,    \* B: CovBMutexInner.inner_pool_blocks
    mutex,                \* B: the block whose inner body holds the mutex
    pc,                   \* B, C: position of every block task
    stack,                \* B, C: block tasks nested on every outer worker
    half_sandwich,        \* B, C: the block task's local matrix, <<>> if none
    feat,                 \* B, C: state of every (block, feature) unit
    chan,                 \* C: the channel's buffer
    tx_handles,           \* C: live Sender handles (tx and its clones)
    pcAgg,                \* C: position of the aggregator thread
    n,                    \* C: the aggregator's update counter
    pcA,                  \* A: position of every repetition
    blockA,               \* A: the block every repetition is at
    cov_bA,               \* A: every repetition's own cov_b
    featA,                \* A: state of every feature of the current block
    workerA,              \* A: the worker that took every feature slice last, or 0
    cov_in,               \* history: the accumulator when repetition r began
    cov_out,              \* history: the accumulator when repetition r ended
    size_args,            \* lib: the (min_size, max_size_inclusive) a caller passes
    ctor,                 \* lib: the BlockSizes constructor the caller used
    block_sizes,          \* lib: the Option<BlockSizes> the constructor returned
    got,                  \* lib: what BlockSizes::get returned, <<>> before the call
    usize_limbs,          \* lib: the width of usize in the build, in 16-bit limbs
    npz,                  \* lib: Option of the arrays in the npz file, by name
    loaded                \* lib: Option of the MockData from_npz_file returned

libVars == <<size_args, ctor, block_sizes, got>>
npzVars == <<usize_limbs, npz, loaded>>
dataVars == <<variant, ncpus, overflow_checks, resid, x_pinv, block_ids, block_id,
              block_start, n_blocks, libVars, npzVars>>
bVars == <<outer_pool_reserved, inner_pool_blocks, mutex>>
taskVars == <<pc, stack, half_sandwich, feat>>
cVars == <<chan, tx_handles, pcAgg, n>>
aVars == <<pcA, blockA, cov_bA, featA, workerA>>
histVars == <<cov_in, cov_out>>
vars == <<dataVars, pcMain, rep, cov_b, bVars, taskVars, cVars, aVars, histVars>>

(***************************************************************************)
(* Matrices.                                                               *)
(***************************************************************************)
Max(a, b) == IF a >= b THEN a ELSE b

(***************************************************************************)
(* lib.rs: BlockSizes. Option<T> is a sequence: None is <<>>, Some(v) is   *)
(* <<v>>.                                                                  *)
(***************************************************************************)
None == <<>>
Some(v) == <<v>>

\* NonZeroUsize::new
NonZeroUsize_new(v) == IF v = 0 THEN None ELSE Some(v)

\* BlockSizes::new as it would be if equal sizes were rejected too.
BlockSizes_new_Strict(min_size, max_size_inclusive) ==
    IF max_size_inclusive > min_size
    THEN Some([min_size |-> min_size, max_size_inclusive |-> max_size_inclusive])
    ELSE None

\* BlockSizes::new, on two NonZeroUsize.
BlockSizes_new(min_size, max_size_inclusive) ==
    IF max_size_inclusive >= min_size
    THEN Some([min_size |-> min_size, max_size_inclusive |-> max_size_inclusive])
    ELSE None

\* BlockSizes::new_from_usize
BlockSizes_new_from_usize(min_size, max_size_inclusive) ==
    IF NonZeroUsize_new(min_size) = None THEN None
    ELSE IF NonZeroUsize_new(max_size_inclusive) = None THEN None
    ELSE BlockSizes_new(NonZeroUsize_new(min_size)[1],
                        NonZeroUsize_new(max_size_inclusive)[1])

\* BlockSizes::get
BlockSizes_get(self) == <<self.min_size, self.max_size_inclusive>>

\* impl Default for BlockSizes: the Option that new_from_usize((1, 8)) returns
\* and default() unwraps, with the model's scaled-down sizes.
BlockSizes_default == BlockSizes_new_from_usize(min_block_size, max_block_size)

\* Array::zeros((n_pred, n_pred, n_feat)), indexed [feature][row][column].
Zeros == [f \in Feats |-> [i \in Preds |-> [j \in Preds |-> 0]]]

\* The inputs tried (the programs draw them from the standard normal).
XChoices == {[p \in Preds |-> [o \in Obs |-> ((2 * p + 3 * o) % 5) - 2]]}
ResidChoices ==
    {[o \in Obs |-> [f \in Feats |-> 0]],
     [o \in Obs |-> [f \in Feats |-> ((o + 2 * f) % 3) - 1]]}

\* BlockIndices as it would be if the filter compared with >= instead of ==.
BlockIndices_AtLeast(ids, b) == SelectSeq([o \in Obs |-> o], LAMBDA o : ids[o] >= b)

\* BlockIndices as it would be if label 0 were left out of every block.
BlockIndices_SkipZero(ids, b) ==
    SelectSeq([o \in Obs |-> o], LAMBDA o : ids[o] = b /\ b # 0)

\* block_ids.indexed_iter().filter_map(..).collect(): the positions that
\* carry label b, in increasing order.
BlockIndices(ids, b) == SelectSeq([o \in Obs |-> o], LAMBDA o : ids[o] = b)

RECURSIVE DotOver(_, _, _, _, _, _)
\* Sum over the selected observations idx[k..] of x[p][o] * r[o][f].
DotOver(x, r, idx, k, p, f) ==
    IF k > Len(idx) THEN 0
    ELSE x[p][idx[k]] * r[idx[k]][f] + DotOver(x, r, idx, k + 1, p, f)

\* x_pinv.select(Axis(1), &block_indices).dot(&resid.select(Axis(0), &block_indices))
HalfSandwich(x, r, ids, b) ==
    [p \in Preds |-> [f \in Feats |-> DotOver(x, r, BlockIndices(ids, b), 1, p, f)]]

\* OuterProduct as it would be if every row were multiplied by the first entry.
OuterProduct_FirstRow(hs, f) == [i \in Preds |-> [j \in Preds |-> hs[i][f] * hs[1][f]]]

\* half_sandwich.dot(&half_sandwich.t()) for column f of the half sandwich.
OuterProduct(hs, f) == [i \in Preds |-> [j \in Preds |-> hs[i][f] * hs[j][f]]]

\* AddSlice as it would be if the update were subtracted.
AddSlice_Subtract(slice, update) ==
    [i \in Preds |-> [j \in Preds |-> slice[i][j] - update[i][j]]]

\* slice += update
AddSlice(slice, update) == [i \in Preds |-> [j \in Preds |-> slice[i][j] + update[i][j]]]

(***************************************************************************)
(* Pool sizing.                                                            *)
(***************************************************************************)
NcpusOuter(c) == IF c < 5 THEN 1 ELSE 2
\* ncpus_inner as it would be without the floor of one thread.
NcpusInner_NoFloor(c) == c - NcpusOuter(c)
NcpusInner(c) == Max(1, c - NcpusOuter(c))
ncpus_outer == NcpusOuter(ncpus)
ncpus_inner == NcpusInner(ncpus)
Workers == 1 .. ncpus_outer

\* BlockRange as it would be if a repetition iterated the labels 1 .. n_blocks.
BlockRange_FromOne(nb) == 1 .. nb

\* The block ids a repetition iterates: Range { start: 0, end: n_blocks + 1 }.
BlockRange(nb) == 0 .. nb
Blocks == BlockRange(n_blocks)

(***************************************************************************)
(* Mock data: the block-id generator.                                      *)
(***************************************************************************)
Shuffles == {q \in [Obs -> Obs] : \A o1, o2 \in Obs : q[o1] = q[o2] => o1 = o2}

\* The state MockParams::default() leaves: BlockSizes::default() and no call
\* of get.
LibInit ==
    /\ size_args = <<min_block_size, max_block_size>>
    /\ ctor = "default"
    /\ block_sizes = BlockSizes_default
    /\ got = <<>>

\* u64 in 16-bit limbs, and the programs' build: a 64-bit usize. No npz file
\* is written or read.
U64Limbs == 4
NoFile ==
    /\ usize_limbs = U64Limbs
    /\ npz = None
    /\ loaded = None

TaskInit(nb) ==
    /\ pc' = [t \in BlockRange(nb) |-> "idle"]
    /\ half_sandwich' = [t \in BlockRange(nb) |-> <<>>]
    /\ feat' = [t \in BlockRange(nb) |-> [f \in Feats |-> "todo"]]

ProgInit(configs) ==
    /\ \E c \in configs : variant = c[1] /\ ncpus = c[2]
    /\ overflow_checks \in Builds(variant)
    /\ NoFile
    /\ resid \in ResidChoices
    /\ x_pinv \in XChoices
    /\ block_ids = [o \in Obs |-> 0]
    /\ block_id = 0
    /\ block_start = 0
    /\ n_blocks = 0
    /\ pcMain = "gen"
    /\ rep = 1
    /\ cov_b = Zeros
    /\ outer_pool_reserved = 0
    /\ inner_pool_blocks = 0
    /\ mutex = {}
    /\ pc = [t \in BlockRange(0) |-> "idle"]
    /\ stack = [w \in 1 .. NcpusOuter(ncpus) |-> <<>>]
    /\ half_sandwich = [t \in BlockRange(0) |-> <<>>]
    /\ feat = [t \in BlockRange(0) |-> [f \in Feats |-> "todo"]]
    /\ chan = <<>>
    /\ tx_handles = 0
    /\ pcAgg = "none"
    /\ n = 1
    /\ pcA = [r \in Reps |-> "idle"]
    /\ blockA = [r \in Reps |-> 0]
    /\ cov_bA = [r \in Reps |-> Zeros]
    /\ featA = [r \in Reps |-> [f \in Feats |-> "todo"]]
    /\ workerA = [r \in Reps |-> [f \in Feats |-> 0]]
    /\ cov_in = [r \in Reps |-> <<>>]
    /\ cov_out = [r \in Reps |-> <<>>]

InitOf(configs) == ProgInit(configs) /\ LibInit

Init == InitOf(Configs)

\* One turn of the generator's loop: a block of the sampled size still fits.
GenAssign ==
    /\ pcMain = "gen"
    /\ \E size \in min_block_size .. max_block_size :
         /\ block_start + size <= n_obs
         /\ block_id' = block_id + 1
         /\ block_ids' = [o \in Obs |->
                IF block_start < o /\ o <= block_start + size
                THEN block_id + 1 ELSE block_ids[o]]
         /\ block_start' = block_start + size
    /\ UNCHANGED <<variant, ncpus, overflow_checks, resid, x_pinv, n_blocks, libVars, npzVars,
                   pcMain, rep, cov_b, bVars, taskVars, cVars, aVars, histVars>>

\* The sampled size overshoots: the loop ends, the ids are shuffled, and the
\* last id assigned is the number of blocks. MockData::from_params (Variant
\* A) unwraps NonZeroUsize::new(n_blocks).
GenShuffle ==
    /\ pcMain = "gen"
    /\ \E size \in min_block_size .. max_block_size : block_start + size > n_obs
    /\ \E q \in Shuffles : block_ids' = [o \in Obs |-> block_ids[q[o]]]
    /\ n_blocks' = block_id
    /\ pcMain' = IF variant = "A" /\ block_id = 0 THEN "aborted" ELSE "rep"
    /\ TaskInit(block_id)
    /\ UNCHANGED <<variant, ncpus, overflow_checks, resid, x_pinv, block_id, block_start,
                   libVars, npzVars, rep, cov_b, bVars, stack, cVars, aVars, histVars>>

(***************************************************************************)
(* Variant B: benchmark-single.rs.                                         *)
(***************************************************************************)
Top(s) == s[Len(s)]
Pop(s) == SubSeq(s, 1, Len(s) - 1)

\* An outer worker takes a block task when it is idle or when the task on
\* top of its stack waits in pool_inner.install (rayon lets a worker of
\* another pool run other work of its own pool while it waits).
CanRun(w) == IF Len(stack[w]) = 0 THEN TRUE ELSE pc[Top(stack[w])] \in {"installed", "body"}

\* The mutex is poisoned: a thread panicked while it held the guard (the
\* inner body, whose feature closure panicked). lock() and wait() then
\* return Err and every unwrap() of them panics.
Poisoned == variant = "B" /\ \E t \in DOMAIN feat : \E f \in Feats : feat[t][f] = "panicked"

\* cov_b_condvar.mutex.lock().unwrap().cov_b.fill(0.); pool_outer.install
B_Reset ==
    /\ variant = "B"
    /\ pcMain = "rep"
    /\ mutex = {}
    /\ ~Poisoned
    /\ cov_b' = Zeros
    /\ cov_in' = [cov_in EXCEPT ![rep] = Zeros]
    /\ pcMain' = "outer"
    /\ TaskInit(n_blocks)
    /\ UNCHANGED <<dataVars, rep, bVars, stack, cVars, aVars, cov_out>>

\* B_Start as it would be if the closure went straight to its half sandwich,
\* without the slot gate.
B_Start_SkipSlot(t, w) ==
    /\ variant = "B"
    /\ pcMain = "outer"
    /\ pc[t] = "idle"
    /\ CanRun(w)
    /\ stack' = [stack EXCEPT ![w] = Append(@, t)]
    /\ pc' = [pc EXCEPT ![t] = "compute"]
    /\ UNCHANGED <<dataVars, pcMain, rep, cov_b, bVars, half_sandwich, feat, cVars,
                   aVars, histVars>>

\* A worker of the outer pool starts the closure of block t.
B_Start(t, w) ==
    /\ variant = "B"
    /\ pcMain = "outer"
    /\ pc[t] = "idle"
    /\ CanRun(w)
    /\ stack' = [stack EXCEPT ![w] = Append(@, t)]
    /\ pc' = [pc EXCEPT ![t] = "slot"]
    /\ UNCHANGED <<dataVars, pcMain, rep, cov_b, bVars, half_sandwich, feat, cVars,
                   aVars, histVars>>

\* B_Slot as it would be if the slot were taken without testing the counter.
B_Slot_NoTest(t) ==
    /\ variant = "B"
    /\ pc[t] = "slot"
    /\ mutex = {}
    /\ pc' = [pc EXCEPT ![t] = "compute"]
    /\ outer_pool_reserved' = outer_pool_reserved + 1
    /\ UNCHANGED <<dataVars, pcMain, rep, cov_b, inner_pool_blocks, mutex, stack,
                   half_sandwich, feat, cVars, aVars, histVars>>

\* Lines 233-242: lock; while outer_pool_reserved >= ncpus_outer wait;
\* outer_pool_reserved += 1; unlock. A woken waiter runs this again.
B_Slot(t) ==
    /\ variant = "B"
    /\ pc[t] = "slot"
    /\ mutex = {}
    /\ ~Poisoned
    /\ IF outer_pool_reserved >= ncpus_outer
       THEN /\ pc' = [pc EXCEPT ![t] = "wait_outer"]
            /\ UNCHANGED outer_pool_reserved
       ELSE /\ pc' = [pc EXCEPT ![t] = "compute"]
            /\ outer_pool_reserved' = outer_pool_reserved + 1
    /\ UNCHANGED <<dataVars, pcMain, rep, cov_b, inner_pool_blocks, mutex, stack,
                   half_sandwich, feat, cVars, aVars, histVars>>

\* Lines 247-255: the block's indices and its half sandwich.
B_Compute(t) ==
    /\ variant = "B"
    /\ pc[t] = "compute"
    /\ half_sandwich' = [half_sandwich EXCEPT ![t] = HalfSandwich(x_pinv, resid, block_ids, t)]
    /\ pc' = [pc EXCEPT ![t] = "gate"]
    /\ UNCHANGED <<dataVars, pcMain, rep, cov_b, bVars, stack, feat, cVars, aVars, histVars>>

\* B_Gate as it would be if the task kept the lock it took at the gate while
\* it calls pool_inner.install.
B_Gate_KeepLock(t) ==
    /\ variant = "B"
    /\ pc[t] = "gate"
    /\ mutex = {}
    /\ ~Poisoned
    /\ IF inner_pool_blocks > 0
       THEN /\ pc' = [pc EXCEPT ![t] = "wait_inner"]
            /\ UNCHANGED <<inner_pool_blocks, mutex>>
       ELSE /\ pc' = [pc EXCEPT ![t] = "installed"]
            /\ inner_pool_blocks' = inner_pool_blocks + 1
            /\ mutex' = {t}
    /\ UNCHANGED <<dataVars, pcMain, rep, cov_b, outer_pool_reserved, stack,
                   half_sandwich, feat, cVars, aVars, histVars>>

\* B_Gate as it would be if the block were sent to the inner pool without
\* testing the flag.
B_Gate_NoTest(t) ==
    /\ variant = "B"
    /\ pc[t] = "gate"
    /\ mutex = {}
    /\ pc' = [pc EXCEPT ![t] = "installed"]
    /\ inner_pool_blocks' = inner_pool_blocks + 1
    /\ UNCHANGED <<dataVars, pcMain, rep, cov_b, outer_pool_reserved, mutex, stack,
                   half_sandwich, feat, cVars, aVars, histVars>>

\* Lines 260-276: lock; while inner_pool_blocks > 0 wait; inner_pool_blocks
\* += 1; unlock; pool_inner.install queues the body on the inner pool.
B_Gate(t) ==
    /\ variant = "B"
    /\ pc[t] = "gate"
    /\ mutex = {}
    /\ ~Poisoned
    /\ IF inner_pool_blocks > 0
       THEN /\ pc' = [pc EXCEPT ![t] = "wait_inner"]
            /\ UNCHANGED inner_pool_blocks
       ELSE /\ pc' = [pc EXCEPT ![t] = "installed"]
            /\ inner_pool_blocks' = inner_pool_blocks + 1
    /\ UNCHANGED <<dataVars, pcMain, rep, cov_b, outer_pool_reserved, mutex, stack,
                   half_sandwich, feat, cVars, aVars, histVars>>

\* B_BodyLock as it would be if the body wrote cov_b without taking the lock.
B_BodyLock_NoLock(t) ==
    /\ variant = "B"
    /\ pc[t] = "installed"
    /\ pc' = [pc EXCEPT ![t] = "body"]
    /\ UNCHANGED <<dataVars, pcMain, rep, cov_b, bVars, stack, half_sandwich, feat,
                   cVars, aVars, histVars>>

\* Line 279: the body, on an inner worker, locks the mutex.
B_BodyLock(t) ==
    /\ variant = "B"
    /\ pc[t] = "installed"
    /\ mutex = {}
    /\ ~Poisoned
    /\ mutex' = {t}
    /\ pc' = [pc EXCEPT ![t] = "body"]
    /\ UNCHANGED <<dataVars, pcMain, rep, cov_b, outer_pool_reserved, inner_pool_blocks,
                   stack, half_sandwich, feat, cVars, aVars, histVars>>

\* The (block, feature) units an inner worker is running.
Busy == {u \in Blocks \X Feats : feat[u[1]][u[2]] = "busy"}

\* Lines 286-296: an inner worker takes feature f of the zipped iterator.
B_BeginWrite(t, f) ==
    /\ variant = "B"
    /\ pc[t] = "body"
    /\ feat[t][f] = "todo"
    /\ Cardinality(Busy) < ncpus_inner
    /\ feat' = [feat EXCEPT ![t][f] = "busy"]
    /\ UNCHANGED <<dataVars, pcMain, rep, cov_b, bVars, pc, stack, half_sandwich, cVars,
                   aVars, histVars>>

\* Lines 299-300: cov_b[.., .., f] += half_sandwich[.., f] outer itself.
B_EndWrite(t, f) ==
    /\ variant = "B"
    /\ pc[t] = "body"
    /\ feat[t][f] = "busy"
    /\ cov_b' = [cov_b EXCEPT ![f] = AddSlice(@, OuterProduct(half_sandwich[t], f))]
    /\ feat' = [feat EXCEPT ![t][f] = "done"]
    /\ UNCHANGED <<dataVars, pcMain, rep, bVars, pc, stack, half_sandwich, cVars, aVars,
                   histVars>>

\* Condvar::notify_one on the tasks waiting in state `waiting`: one of them,
\* if there is any, goes back to `retry` to lock the mutex and test again.
\* Spurious wake-ups, which only send a waiter back to test again, are left
\* out.
NotifyOne(p, waiting, retry) ==
    IF \E t \in DOMAIN p : p[t] = waiting
    THEN {[p EXCEPT ![t] = retry] : t \in {u \in DOMAIN p : p[u] = waiting}}
    ELSE {p}

\* B_Release as it would be if the gates were released before the feature
\* accumulation has completed.
B_Release_Early(t) ==
    /\ variant = "B"
    /\ pc[t] = "body"
    /\ \A f \in Feats : feat[t][f] # "busy"
    /\ inner_pool_blocks' = inner_pool_blocks - 1
    /\ outer_pool_reserved' = outer_pool_reserved - 1
    /\ \E p1 \in NotifyOne([pc EXCEPT ![t] = "latched"], "wait_inner", "gate") :
         pc' \in NotifyOne(p1, "wait_outer", "slot")
    /\ mutex' = {}
    /\ feat' = [feat EXCEPT ![t] = [f \in Feats |-> "done"]]
    /\ UNCHANGED <<dataVars, pcMain, rep, cov_b, stack, half_sandwich, cVars,
                   aVars, histVars>>

\* B_Release as it would be without the two notify_one calls.
B_Release_NoNotify(t) ==
    /\ variant = "B"
    /\ pc[t] = "body"
    /\ \A f \in Feats : feat[t][f] = "done"
    /\ inner_pool_blocks' = inner_pool_blocks - 1
    /\ outer_pool_reserved' = outer_pool_reserved - 1
    /\ pc' = [pc EXCEPT ![t] = "latched"]
    /\ mutex' = {}
    /\ UNCHANGED <<dataVars, pcMain, rep, cov_b, stack, half_sandwich, feat, cVars,
                   aVars, histVars>>

\* B_Release as it would be if the body gave back the inner gate only and
\* kept its slot on the outer pool.
B_Release_KeepSlot(t) ==
    /\ variant = "B"
    /\ pc[t] = "body"
    /\ \A f \in Feats : feat[t][f] = "done"
    /\ inner_pool_blocks' = inner_pool_blocks - 1
    /\ outer_pool_reserved' = outer_pool_reserved
    /\ \E p1 \in NotifyOne([pc EXCEPT ![t] = "latched"], "wait_inner", "gate") :
         pc' \in NotifyOne(p1, "wait_outer", "slot")
    /\ mutex' = {}
    /\ UNCHANGED <<dataVars, pcMain, rep, cov_b, stack, half_sandwich, feat, cVars,
                   aVars, histVars>>

\* Lines 303-312, still in the body and under the mutex: both counters
\* are decremented, both condition variables signalled, the lock dropped.
B_Release(t) ==
    /\ variant = "B"
    /\ pc[t] = "body"
    /\ \A f \in Feats : feat[t][f] = "done"
    /\ inner_pool_blocks' = inner_pool_blocks - 1
    /\ outer_pool_reserved' = outer_pool_reserved - 1
    /\ \E p1 \in NotifyOne([pc EXCEPT ![t] = "latched"], "wait_inner", "gate") :
         pc' \in NotifyOne(p1, "wait_outer", "slot")
    /\ mutex' = {}
    /\ UNCHANGED <<dataVars, pcMain, rep, cov_b, stack, half_sandwich, feat, cVars,
                   aVars, histVars>>

\* pool_inner.install returns on the block's own worker, which needs the
\* block on top of that worker's stack; the closure ends and drops
\* half_sandwich.
B_Return(t, w) ==
    /\ variant = "B"
    /\ pc[t] = "latched"
    /\ Len(stack[w]) > 0
    /\ Top(stack[w]) = t
    /\ stack' = [stack EXCEPT ![w] = Pop(@)]
    /\ half_sandwich' = [half_sandwich EXCEPT ![t] = <<>>]
    /\ pc' = [pc EXCEPT ![t] = "done"]
    /\ UNCHANGED <<dataVars, pcMain, rep, cov_b, bVars, feat, cVars, aVars, histVars>>

\* pool_outer.install returns: every block's closure has ended.
B_Join ==
    /\ variant = "B"
    /\ pcMain = "outer"
    /\ \A t \in Blocks : pc[t] = "done"
    /\ cov_out' = [cov_out EXCEPT ![rep] = cov_b]
    /\ IF rep < n_rep
       THEN rep' = rep + 1 /\ pcMain' = "rep"
       ELSE rep' = rep /\ pcMain' = "done"
    /\ UNCHANGED <<dataVars, cov_b, bVars, taskVars, cVars, aVars, cov_in>>

\* A feature closure panics on an inner worker while the body holds the
\* guard of line 279. No statement of lines 296-301 panics on the data the
\* program generates; the step stands for a fault from outside.
B_BodyPanic(t, f) ==
    /\ variant = "B"
    /\ pc[t] = "body"
    /\ feat[t][f] = "busy"
    /\ feat' = [feat EXCEPT ![t][f] = "panicked"]
    /\ UNCHANGED <<dataVars, pcMain, rep, cov_b, bVars, pc, stack, half_sandwich, cVars,
                   aVars, histVars>>

\* The parallel iterator waits for its running closures and resumes the
\* panic in the body, which unwinds: the guard is dropped by a panicking
\* thread, which poisons the mutex, and lines 303-311 are skipped: no
\* counter is decremented and no condition variable is signalled.
B_BodyUnwind(t) ==
    /\ variant = "B"
    /\ pc[t] = "body"
    /\ \E f \in Feats : feat[t][f] = "panicked"
    /\ \A f \in Feats : feat[t][f] # "busy"
    /\ mutex' = {}
    /\ pc' = [pc EXCEPT ![t] = "failed"]
    /\ UNCHANGED <<dataVars, pcMain, rep, cov_b, outer_pool_reserved, inner_pool_blocks,
                   stack, half_sandwich, feat, cVars, aVars, histVars>>

\* Lines 235, 262, 279: lock() on the poisoned mutex returns Err and
\* unwrap() panics.
B_LockPoisoned(t) ==
    /\ variant = "B"
    /\ pc[t] \in {"slot", "gate", "installed"}
    /\ mutex = {}
    /\ Poisoned
    /\ pc' = [pc EXCEPT ![t] = "failed"]
    /\ UNCHANGED <<dataVars, pcMain, rep, cov_b, bVars, stack, half_sandwich, feat, cVars,
                   aVars, histVars>>

\* The panic resumes in the block's closure on its own worker, which
\* unwinds and drops half_sandwich.
B_Unwind(t, w) ==
    /\ variant = "B"
    /\ pc[t] = "failed"
    /\ Len(stack[w]) > 0
    /\ Top(stack[w]) = t
    /\ stack' = [stack EXCEPT ![w] = Pop(@)]
    /\ half_sandwich' = [half_sandwich EXCEPT ![t] = <<>>]
    /\ pc' = [pc EXCEPT ![t] = "panicked"]
    /\ UNCHANGED <<dataVars, pcMain, rep, cov_b, bVars, feat, cVars, aVars, histVars>>

\* pool_outer.install resumes the panic in main once every block's closure
\* has ended; main unwinds and the process exits with an error.
B_Abort ==
    /\ variant = "B"
    /\ pcMain = "outer"
    /\ \E t \in Blocks : pc[t] = "panicked"
    /\ \A t \in Blocks : pc[t] \in {"done", "panicked"}
    /\ pcMain' = "aborted"
    /\ UNCHANGED <<dataVars, rep, cov_b, bVars, taskVars, cVars, aVars, histVars>>

NextB ==
    \/ B_Reset
    \/ \E t \in Blocks, w \in Workers : B_Start(t, w)
    \/ \E t \in Blocks : B_Slot(t)
    \/ \E t \in Blocks : B_Compute(t)
    \/ \E t \in Blocks : B_Gate(t)
    \/ \E t \in Blocks : B_BodyLock(t)
    \/ \E t \in Blocks, f \in Feats : B_BeginWrite(t, f)
    \/ \E t \in Blocks, f \in Feats : B_EndWrite(t, f)
    \/ \E t \in Blocks : B_Release(t)
    \/ \E t \in Blocks, w \in Workers : B_Return(t, w)
    \/ B_Join

(***************************************************************************)
(* Variant C: benchmark.rs.                                                *)
(***************************************************************************)
\* sync_channel(ncpus_inner + ncpus_outer)
Capacity == ncpus_inner + ncpus_outer

\* The divisor of with_min_len's argument, line 214.
MinLenDivisor == ncpus_inner - 1

\* Lines 132-179: a new channel, the aggregator thread spawned in the scope,
\* pool_outer.install. cov_b was made once, before the loop (line 123).
C_Channel ==
    /\ variant = "C"
    /\ pcMain = "rep"
    /\ chan' = <<>>
    /\ tx_handles' = 1
    /\ pcAgg' = "recv"
    /\ n' = 1
    /\ cov_in' = [cov_in EXCEPT ![rep] = cov_b]
    /\ pcMain' = "outer"
    /\ TaskInit(n_blocks)
    /\ UNCHANGED <<dataVars, rep, cov_b, bVars, stack, aVars, cov_out>>

\* with_min_len(half_sandwich.len_of(Axis(1)) / (ncpus_inner - 1)), line 214
\* (reached only with a divisor that is not 0).
MinLen == n_feat \div MinLenDivisor

\* rayon splits a run of features in two only if both parts keep the minimum
\* length (at least 1): whether the iterator may be cut between features k
\* and k + 1.
CanSplitAt(k) == k >= Max(1, MinLen) /\ n_feat - k >= Max(1, MinLen)

\* A chunk is walked in order: feature f is next when it starts a chunk or
\* follows a feature already sent.
NextInChunk(t, f) ==
    IF f = 1 THEN TRUE
    ELSE IF CanSplitAt(f - 1) THEN TRUE
    ELSE feat[t][f - 1] = "done"

\* Lines 186-214: an outer worker starts block t, computes its indices and
\* half sandwich and calls pool_inner.install; the body builds the iterator,
\* and the minimum chunk length divides by ncpus_inner - 1, which panics
\* when that is 0.
C_Start(t, w) ==
    /\ variant = "C"
    /\ pcMain = "outer"
    /\ pc[t] = "idle"
    /\ CanRun(w)
    /\ stack' = [stack EXCEPT ![w] = Append(@, t)]
    /\ half_sandwich' = [half_sandwich EXCEPT ![t] = HalfSandwich(x_pinv, resid, block_ids, t)]
    /\ pc' = [pc EXCEPT ![t] = IF MinLenDivisor = 0 THEN "failed" ELSE "body"]
    /\ UNCHANGED <<dataVars, pcMain, rep, cov_b, bVars, feat, cVars, aVars, histVars>>

\* C_Send as it would be over an unbounded channel: the send never blocks.
C_Send_Unbounded(t, f) ==
    /\ variant = "C"
    /\ pc[t] = "body"
    /\ feat[t][f] = "todo"
    /\ NextInChunk(t, f)
    /\ Cardinality(Busy) < ncpus_inner
    /\ chan' = Append(chan, <<OuterProduct(half_sandwich[t], f), f>>)
    /\ feat' = [feat EXCEPT ![t][f] = "done"]
    /\ UNCHANGED <<dataVars, pcMain, rep, cov_b, bVars, pc, stack, half_sandwich,
                   tx_handles, pcAgg, n, aVars, histVars>>

\* Lines 215-222: an inner worker takes feature f, clones tx, computes the
\* feature's outer product and sends it; the clone is dropped when the
\* closure ends. With the buffer full the send blocks, holding the message.
C_Send(t, f) ==
    /\ variant = "C"
    /\ pc[t] = "body"
    /\ pcAgg # "panicked"
    /\ feat[t][f] = "todo"
    /\ NextInChunk(t, f)
    /\ Cardinality(Busy) < ncpus_inner
    /\ IF Len(chan) < Capacity
       THEN /\ chan' = Append(chan, <<OuterProduct(half_sandwich[t], f), f>>)
            /\ feat' = [feat EXCEPT ![t][f] = "done"]
            /\ UNCHANGED tx_handles
       ELSE /\ tx_handles' = tx_handles + 1
            /\ feat' = [feat EXCEPT ![t][f] = "busy"]
            /\ UNCHANGED chan
    /\ UNCHANGED <<dataVars, pcMain, rep, cov_b, bVars, pc, stack, half_sandwich, pcAgg,
                   n, aVars, histVars>>

\* A blocked send completes once the buffer has room.
C_Unblock(t, f) ==
    /\ variant = "C"
    /\ pc[t] = "body"
    /\ pcAgg # "panicked"
    /\ feat[t][f] = "busy"
    /\ Len(chan) < Capacity
    /\ chan' = Append(chan, <<OuterProduct(half_sandwich[t], f), f>>)
    /\ tx_handles' = tx_handles - 1
    /\ feat' = [feat EXCEPT ![t][f] = "done"]
    /\ UNCHANGED <<dataVars, pcMain, rep, cov_b, bVars, pc, stack, half_sandwich, pcAgg,
                   n, aVars, histVars>>

\* pool_inner.install returns on the block's own worker once every feature
\* is sent; the closure ends and drops half_sandwich.
C_Return(t, w) ==
    /\ variant = "C"
    /\ pc[t] = "body"
    /\ \A f \in Feats : feat[t][f] = "done"
    /\ Len(stack[w]) > 0
    /\ Top(stack[w]) = t
    /\ stack' = [stack EXCEPT ![w] = Pop(@)]
    /\ half_sandwich' = [half_sandwich EXCEPT ![t] = <<>>]
    /\ pc' = [pc EXCEPT ![t] = "done"]
    /\ UNCHANGED <<dataVars, pcMain, rep, cov_b, bVars, feat, cVars, aVars, histVars>>

\* The body's panic resumes in the block's closure, which unwinds.
C_Unwind(t, w) ==
    /\ variant = "C"
    /\ pc[t] = "failed"
    /\ \A f \in Feats : feat[t][f] # "busy"
    /\ Len(stack[w]) > 0
    /\ Top(stack[w]) = t
    /\ stack' = [stack EXCEPT ![w] = Pop(@)]
    /\ half_sandwich' = [half_sandwich EXCEPT ![t] = <<>>]
    /\ pc' = [pc EXCEPT ![t] = "panicked"]
    /\ UNCHANGED <<dataVars, pcMain, rep, cov_b, bVars, feat, cVars, aVars, histVars>>

\* Lines 225-229: pool_outer.install returns and the original tx is dropped.
C_DropTx ==
    /\ variant = "C"
    /\ pcMain = "outer"
    /\ \A t \in Blocks : pc[t] = "done"
    /\ tx_handles' = tx_handles - 1
    /\ pcMain' = "dropped"
    /\ UNCHANGED <<dataVars, rep, cov_b, bVars, taskVars, chan, pcAgg, n, aVars,
                   histVars>>

\* A block's panic leaves pool_outer.install once no block is running; the
\* scope's closure unwinds and drops the tx it owns.
C_Abort ==
    /\ variant = "C"
    /\ pcMain = "outer"
    /\ \E t \in Blocks : pc[t] = "panicked"
    /\ \A t \in Blocks : pc[t] \in {"idle", "done", "panicked"}
    /\ tx_handles' = tx_handles - 1
    /\ pcMain' = "unwinding"
    /\ UNCHANGED <<dataVars, rep, cov_b, bVars, taskVars, chan, pcAgg, n, aVars,
                   histVars>>

\* let n_total = n_feat * n_blocks, line 141.
n_total == n_feat * n_blocks

\* pct_new > (pct as f32) for the k-th update, with pct_new = 100. * (k as
\* f32) / (n_total as f32), which is +inf when n_total is 0. (The f32
\* arithmetic is exact on the sizes explored.)
PctExceeds(k, p) == IF n_total = 0 THEN TRUE ELSE 100 * k > p * n_total

\* pct_new.round() as u8: rounds half away from zero and saturates at 255.
PctRound(k) ==
    IF n_total = 0 THEN 255
    ELSE IF (200 * k + n_total) \div (2 * n_total) > 255 THEN 255
    ELSE (200 * k + n_total) \div (2 * n_total)

RECURSIVE PctAfter(_)
\* Lines 152-165: the u8 pct after the updates 1 .. k in a build where
\* pct += 1 wraps.
PctAfter(k) ==
    IF k = 0 THEN 0
    ELSE IF PctExceeds(k, PctAfter(k - 1)) THEN (PctRound(k) + 1) % 256
    ELSE PctAfter(k - 1)

\* The k-th update makes pct += 1 overflow, line 164.
PctOverflows(k) == PctExceeds(k, PctAfter(k - 1)) /\ PctRound(k) = 255

\* Lines 150-171: rx_iter.next() yields the oldest buffered message; the
\* progress indicator is brought up to date; n = n + 1;
\* cov_b[.., .., feat] += cov_b_update.
AggRecv ==
    /\ variant = "C"
    /\ pcAgg = "recv"
    /\ Len(chan) > 0
    /\ ~(overflow_checks /\ PctOverflows(n))
    /\ chan' = Tail(chan)
    /\ n' = n + 1
    /\ cov_b' = [cov_b EXCEPT ![Head(chan)[2]] = AddSlice(@, Head(chan)[1])]
    /\ UNCHANGED <<dataVars, pcMain, rep, bVars, taskVars, tx_handles, pcAgg,
                   aVars, histVars>>

\* Line 164: pct += 1 overflows in a build with overflow checks and the
\* aggregator panics on the update it has just taken; unwinding drops
\* rx_iter, the receiver, and with it the messages still buffered.
AggOverflow ==
    /\ variant = "C"
    /\ pcAgg = "recv"
    /\ Len(chan) > 0
    /\ overflow_checks /\ PctOverflows(n)
    /\ pcAgg' = "panicked"
    /\ chan' = <<>>
    /\ UNCHANGED <<dataVars, pcMain, rep, cov_b, bVars, taskVars, tx_handles, n, aVars,
                   histVars>>

\* AggExit as it would be if the aggregator left as soon as the buffer is empty.
AggExit_EmptyBuffer ==
    /\ variant = "C"
    /\ pcAgg = "recv"
    /\ Len(chan) = 0
    /\ pcAgg' = "exited"
    /\ UNCHANGED <<dataVars, pcMain, rep, cov_b, bVars, taskVars, chan, tx_handles,
                   n, aVars, histVars>>

\* rx_iter.next() yields None: the buffer is empty and every Sender is gone.
AggExit ==
    /\ variant = "C"
    /\ pcAgg = "recv"
    /\ Len(chan) = 0
    /\ tx_handles = 0
    /\ pcAgg' = "exited"
    /\ UNCHANGED <<dataVars, pcMain, rep, cov_b, bVars, taskVars, chan, tx_handles,
                   n, aVars, histVars>>

\* C_ScopeEnd as it would be if the scope ignored a panic of the aggregator.
C_ScopeEnd_IgnorePanic ==
    /\ variant = "C"
    /\ pcMain \in {"dropped", "unwinding"}
    /\ pcAgg \in {"exited", "panicked"}
    /\ IF pcMain = "unwinding"
       THEN pcMain' = "aborted" /\ UNCHANGED <<rep, cov_out>>
       ELSE /\ cov_out' = [cov_out EXCEPT ![rep] = cov_b]
            /\ IF rep < n_rep
               THEN rep' = rep + 1 /\ pcMain' = "rep"
               ELSE rep' = rep /\ pcMain' = "done"
    /\ UNCHANGED <<dataVars, cov_b, bVars, taskVars, cVars, aVars, cov_in>>

\* thread::scope returns once the aggregator has been joined; after a
\* panic, of its closure or of the aggregator, it panics in turn and the
\* run is over.
C_ScopeEnd ==
    /\ variant = "C"
    /\ pcMain \in {"dropped", "unwinding"}
    /\ pcAgg \in {"exited", "panicked"}
    /\ IF pcMain = "unwinding" \/ pcAgg = "panicked"
       THEN pcMain' = "aborted" /\ UNCHANGED <<rep, cov_out>>
       ELSE /\ cov_out' = [cov_out EXCEPT ![rep] = cov_b]
            /\ IF rep < n_rep
               THEN rep' = rep + 1 /\ pcMain' = "rep"
               ELSE rep' = rep /\ pcMain' = "done"
    /\ UNCHANGED <<dataVars, cov_b, bVars, taskVars, cVars, aVars, cov_in>>

\* Lines 146-147, 155-162: a write to stdout fails and print! or
\* flush().unwrap() panics in the aggregator; unwinding drops rx_iter, the
\* receiver, and with it the messages still buffered.
AggPanic ==
    /\ variant = "C"
    /\ pcAgg = "recv"
    /\ pcAgg' = "panicked"
    /\ chan' = <<>>
    /\ UNCHANGED <<dataVars, pcMain, rep, cov_b, bVars, taskVars, tx_handles, n, aVars,
                   histVars>>

\* Lines 219-221: the receiver has hung up, so send returns Err, at once or
\* to a sender blocked on the full buffer, and unwrap() panics in the
\* feature closure; its clone of tx is dropped.
C_SendFail(t, f) ==
    /\ variant = "C"
    /\ pc[t] = "body"
    /\ pcAgg = "panicked"
    /\ IF feat[t][f] = "busy"
       THEN tx_handles' = tx_handles - 1
       ELSE /\ feat[t][f] = "todo"
            /\ NextInChunk(t, f)
            /\ Cardinality(Busy) < ncpus_inner
            /\ UNCHANGED tx_handles
    /\ feat' = [feat EXCEPT ![t][f] = "panicked"]
    /\ UNCHANGED <<dataVars, pcMain, rep, cov_b, bVars, pc, stack, half_sandwich, chan,
                   pcAgg, n, aVars, histVars>>

\* The parallel iterator waits for its running closures and resumes the
\* panic in the body; pool_inner.install hands it to the block's closure.
C_BodyFail(t) ==
    /\ variant = "C"
    /\ pc[t] = "body"
    /\ \E f \in Feats : feat[t][f] = "panicked"
    /\ \A f \in Feats : feat[t][f] # "busy"
    /\ pc' = [pc EXCEPT ![t] = "failed"]
    /\ UNCHANGED <<dataVars, pcMain, rep, cov_b, bVars, stack, half_sandwich, feat, cVars,
                   aVars, histVars>>

NextC ==
    \/ C_Channel
    \/ \E t \in Blocks, w \in Workers : C_Start(t, w)
    \/ \E t \in Blocks, f \in Feats : C_Send(t, f)
    \/ \E t \in Blocks, f \in Feats : C_Unblock(t, f)
    \/ \E t \in Blocks, w \in Workers : C_Return(t, w)
    \/ \E t \in Blocks, w \in Workers : C_Unwind(t, w)
    \/ C_DropTx
    \/ C_Abort
    \/ AggRecv
    \/ AggOverflow
    \/ \E t \in Blocks, f \in Feats : C_SendFail(t, f)
    \/ \E t \in Blocks : C_BodyFail(t)
    \/ AggExit
    \/ C_ScopeEnd

(***************************************************************************)
(* Variant A: benchmark-multi.rs.                                          *)
(***************************************************************************)
\* The features a worker of the global pool is adding, over all repetitions.
BusyA == {u \in Reps \X Feats : featA[u[1]][u[2]] = "busy"}

\* Line 73: the repetitions become tasks of the global pool.
A_Spawn ==
    /\ variant = "A"
    /\ pcMain = "rep"
    /\ pcMain' = "outer"
    /\ UNCHANGED <<dataVars, rep, cov_b, bVars, taskVars, cVars, aVars, histVars>>

\* Lines 75-83: repetition r makes its own cov_b of zeros and enters the
\* block loop at block 0.
A_Start(r) ==
    /\ variant = "A"
    /\ pcMain = "outer"
    /\ pcA[r] = "idle"
    /\ cov_bA' = [cov_bA EXCEPT ![r] = Zeros]
    /\ cov_in' = [cov_in EXCEPT ![r] = Zeros]
    /\ blockA' = [blockA EXCEPT ![r] = 0]
    /\ featA' = [featA EXCEPT ![r] = [f \in Feats |-> "todo"]]
    /\ pcA' = [pcA EXCEPT ![r] = "block"]
    /\ UNCHANGED <<dataVars, pcMain, rep, cov_b, bVars, taskVars, cVars, workerA,
                   cov_out>>

\* The workers of the global pool that are writing a slice, and those that
\* have not taken one yet.
BusyWorkersA == {workerA[u[1]][u[2]] : u \in BusyA}
FreshWorkersA == {w \in 1 .. ncpus : \A r \in Reps, f \in Feats : workerA[r][f] # w}

\* The workers that may take the next feature: every idle one, any of them.
\* The workers that have not taken a feature yet differ in nothing but
\* their index, so they are taken in index order.
FreeWorkersA ==
    {w \in 1 .. ncpus :
        /\ w \notin BusyWorkersA
        /\ w \in FreshWorkersA => \A v \in FreshWorkersA : w <= v}

\* A_BeginWrite as it would be if the iterator handed out a feature that a
\* worker is still writing.
A_BeginWrite_Again(r, f) ==
    /\ variant = "A"
    /\ pcA[r] = "block"
    /\ featA[r][f] \in {"todo", "busy"}
    /\ \E w \in FreeWorkersA : workerA' = [workerA EXCEPT ![r][f] = w]
    /\ featA' = [featA EXCEPT ![r][f] = "busy"]
    /\ UNCHANGED <<dataVars, pcMain, rep, cov_b, bVars, taskVars, cVars, pcA, blockA,
                   cov_bA, histVars>>

\* Lines 101-111: a free worker takes feature f of the current block; the
\* iterator hands out every feature once.
A_BeginWrite(r, f) ==
    /\ variant = "A"
    /\ pcA[r] = "block"
    /\ featA[r][f] = "todo"
    /\ \E w \in FreeWorkersA : workerA' = [workerA EXCEPT ![r][f] = w]
    /\ featA' = [featA EXCEPT ![r][f] = "busy"]
    /\ UNCHANGED <<dataVars, pcMain, rep, cov_b, bVars, taskVars, cVars, pcA, blockA,
                   cov_bA, histVars>>

\* A_EndWrite as it would be if the repetitions added into one shared
\* cov_b, that of the first repetition.
A_EndWrite_Shared(r, f) ==
    /\ variant = "A"
    /\ pcA[r] = "block"
    /\ featA[r][f] = "busy"
    /\ cov_bA' = [cov_bA EXCEPT ![1][f] =
           AddSlice(@, OuterProduct(HalfSandwich(x_pinv, resid, block_ids, blockA[r]), f))]
    /\ featA' = [featA EXCEPT ![r][f] = "done"]
    /\ UNCHANGED <<dataVars, pcMain, rep, cov_b, bVars, taskVars, cVars, pcA, blockA,
                   workerA, histVars>>

\* Lines 114-115: cov_b[.., .., f] += half_sandwich[.., f] outer itself.
A_EndWrite(r, f) ==
    /\ variant = "A"
    /\ pcA[r] = "block"
    /\ featA[r][f] = "busy"
    /\ cov_bA' = [cov_bA EXCEPT ![r][f] =
           AddSlice(@, OuterProduct(HalfSandwich(x_pinv, resid, block_ids, blockA[r]), f))]
    /\ featA' = [featA EXCEPT ![r][f] = "done"]
    /\ UNCHANGED <<dataVars, pcMain, rep, cov_b, bVars, taskVars, cVars, pcA, blockA,
                   workerA, histVars>>

\* Line 83: the for_each over the features has returned; the loop goes to
\* the next block, or the repetition ends after block n_blocks.
A_NextBlock(r) ==
    /\ variant = "A"
    /\ pcA[r] = "block"
    /\ \A f \in Feats : featA[r][f] = "done"
    /\ IF blockA[r] + 1 \in Blocks
       THEN /\ blockA' = [blockA EXCEPT ![r] = @ + 1]
            /\ featA' = [featA EXCEPT ![r] = [f \in Feats |-> "todo"]]
            /\ UNCHANGED <<pcA, cov_out>>
       ELSE /\ pcA' = [pcA EXCEPT ![r] = "done"]
            /\ cov_out' = [cov_out EXCEPT ![r] = cov_bA[r]]
            /\ UNCHANGED <<blockA, featA>>
    /\ UNCHANGED <<dataVars, pcMain, rep, cov_b, bVars, taskVars, cVars, cov_bA, workerA,
                   cov_in>>

\* Line 118: every repetition has ended.
A_Join ==
    /\ variant = "A"
    /\ pcMain = "outer"
    /\ \A r \in Reps : pcA[r] = "done"
    /\ pcMain' = "done"
    /\ UNCHANGED <<dataVars, rep, cov_b, bVars, taskVars, cVars, aVars, histVars>>

NextA ==
    \/ A_Spawn
    \/ \E r \in Reps : A_Start(r)
    \/ \E r \in Reps, f \in Feats : A_BeginWrite(r, f)
    \/ \E r \in Reps, f \in Feats : A_EndWrite(r, f)
    \/ \E r \in Reps : A_NextBlock(r)
    \/ A_Join

Gen == GenAssign \/ GenShuffle

Next == Gen \/ NextA \/ NextB \/ NextC

Spec == Init /\ [][Next]_vars

\* One program at a time.
InitB == InitOf({c \in Configs : c[1] = "B"})
NextOnlyB == Gen \/ NextB
SpecB == InitB /\ [][NextOnlyB]_vars

InitA == InitOf(ConfigsA)
NextOnlyA == Gen \/ NextA
SpecA == InitA /\ [][NextOnlyA]_vars

InitC == InitOf({c \in Configs : c[1] = "C"})
NextOnlyC == Gen \/ NextC
SpecC == InitC /\ [][NextOnlyC]_vars

\* Every thread that can take a step is eventually scheduled; no step of
\* these programs is enabled again and again without being enabled for good.
FairSpecB == SpecB /\ WF_vars(NextOnlyB)
FairSpecC == SpecC /\ WF_vars(NextOnlyC)

\* The programs with a mutex and with a channel, under the faults their
\* error handling is written for: a panic under the mutex (B) and a panic
\* of the aggregator (C).
ConfigsFail == {<<"B", 3>>, <<"B", 5>>, <<"C", 2>>, <<"C", 3>>}
InitFail == InitOf(ConfigsFail)
NextFail ==
    \/ Gen
    \/ NextB
    \/ \E t \in Blocks, f \in Feats : B_BodyPanic(t, f)
    \/ \E t \in Blocks : B_BodyUnwind(t)
    \/ \E t \in Blocks : B_LockPoisoned(t)
    \/ \E t \in Blocks, w \in Workers : B_Unwind(t, w)
    \/ B_Abort
    \/ NextC
    \/ AggPanic
SpecFail == InitFail /\ [][NextFail]_vars

(***************************************************************************)
(* A caller of the library's BlockSizes: it picks two sizes, builds a      *)
(* BlockSizes with one of the constructors and reads it back.              *)
(***************************************************************************)
progVars == <<variant, ncpus, overflow_checks, resid, x_pinv, block_ids, block_id, block_start, n_blocks,
              npzVars, pcMain, rep, cov_b, bVars, taskVars, cVars, aVars, histVars>>

\* The caller holds two usize and has called nothing yet; no benchmark runs.
InitL ==
    /\ ProgInit({<<"A", 2>>})
    /\ resid = [o \in Obs |-> [f \in Feats |-> 0]]
    /\ size_args \in (0 .. MaxSize) \X (0 .. MaxSize)
    /\ ctor = "none"
    /\ block_sizes = None
    /\ got = <<>>

\* BlockSizes::new((min_size, max_size_inclusive)): the arguments are
\* NonZeroUsize, so the caller has non-zero sizes.
L_New ==
    /\ ctor = "none"
    /\ size_args[1] # 0 /\ size_args[2] # 0
    /\ ctor' = "new"
    /\ block_sizes' = BlockSizes_new(size_args[1], size_args[2])
    /\ UNCHANGED <<size_args, got, progVars>>

\* BlockSizes::new_from_usize((min_size, max_size_inclusive))
L_NewFromUsize ==
    /\ ctor = "none"
    /\ ctor' = "new_from_usize"
    /\ block_sizes' = BlockSizes_new_from_usize(size_args[1], size_args[2])
    /\ UNCHANGED <<size_args, got, progVars>>

\* BlockSizes::default()
L_Default ==
    /\ ctor = "none"
    /\ ctor' = "default"
    /\ block_sizes' = BlockSizes_default
    /\ UNCHANGED <<size_args, got, progVars>>

\* block_sizes.get() on a value that exists.
L_Get ==
    /\ block_sizes # None
    /\ got = <<>>
    /\ got' = BlockSizes_get(block_sizes[1])
    /\ UNCHANGED <<size_args, ctor, block_sizes, progVars>>

NextL == L_New \/ L_NewFromUsize \/ L_Default \/ L_Get

SpecL == InitL /\ [][NextL]_vars

(***************************************************************************)
(* lib.rs: MockData::from_params on any valid MockParams. mp.n_obs is the  *)
(* length of block_ids and mp.block_sizes is block_sizes; the loop state   *)
(* is block_id and block_start.                                            *)
(***************************************************************************)
MaxObs == 4

\* The valid BlockSizes with sizes up to MaxSize.
ValidBlockSizes ==
    {BlockSizes_new(lo, hi) : lo \in 1 .. MaxSize, hi \in 1 .. MaxSize} \ {None}

\* sample_axis_using(Axis(0), len, WithoutReplacement) as it would be if it
\* sampled with replacement.
SampleAxis_WithReplacement(len) == [1 .. len -> 1 .. len]

\* sample_axis_using(Axis(0), len, SamplingStrategy::WithoutReplacement):
\* the index vectors it can draw.
SampleAxis(len) ==
    {q \in [1 .. len -> 1 .. len] : \A o1, o2 \in 1 .. len : q[o1] = q[o2] => o1 = o2}

\* block_ids.len_of(Axis(0))
LenIds == Cardinality(DOMAIN block_ids)

\* from_params is called with a valid MockParams; block_ids is the zero
\* vector and the loop has its initial conditions.
InitMock ==
    /\ variant = "A" /\ ncpus = 2 /\ overflow_checks = FALSE
    /\ NoFile
    /\ resid = [o \in Obs |-> [f \in Feats |-> 0]]
    /\ x_pinv \in XChoices
    /\ \E len \in 1 .. MaxObs : block_ids = [o \in 1 .. len |-> 0]
    /\ block_id = 0
    /\ block_start = 0
    /\ n_blocks = 0
    /\ size_args = <<0, 0>>
    /\ ctor = "new"
    /\ block_sizes \in ValidBlockSizes
    /\ got = <<>>
    /\ pcMain = "from_params"
    /\ rep = 1
    /\ cov_b = Zeros
    /\ outer_pool_reserved = 0
    /\ inner_pool_blocks = 0
    /\ mutex = {}
    /\ pc = [t \in BlockRange(0) |-> "idle"]
    /\ stack = [w \in 1 .. NcpusOuter(ncpus) |-> <<>>]
    /\ half_sandwich = [t \in BlockRange(0) |-> <<>>]
    /\ feat = [t \in BlockRange(0) |-> [f \in Feats |-> "todo"]]
    /\ chan = <<>>
    /\ tx_handles = 0
    /\ pcAgg = "none"
    /\ n = 1
    /\ pcA = [r \in Reps |-> "idle"]
    /\ blockA = [r \in Reps |-> 0]
    /\ cov_bA = [r \in Reps |-> Zeros]
    /\ featA = [r \in Reps |-> [f \in Feats |-> "todo"]]
    /\ workerA = [r \in Reps |-> [f \in Feats |-> 0]]
    /\ cov_in = [r \in Reps |-> <<>>]
    /\ cov_out = [r \in Reps |-> <<>>]

mockUnchanged == <<variant, ncpus, overflow_checks, resid, x_pinv, libVars, npzVars, rep, cov_b,
                   bVars, taskVars, cVars, aVars, histVars>>

\* One turn of the loop: the sampled block_end is within block_ids; the id
\* is pre-incremented and fills block_start .. block_end.
FP_Assign ==
    /\ pcMain = "from_params"
    /\ \E size \in block_sizes[1].min_size .. block_sizes[1].max_size_inclusive :
         /\ block_start + size <= LenIds
         /\ block_id' = block_id + 1
         /\ block_ids' = [o \in DOMAIN block_ids |->
                IF block_start < o /\ o <= block_start + size
                THEN block_id + 1 ELSE block_ids[o]]
         /\ block_start' = block_start + size
    /\ UNCHANGED <<n_blocks, pcMain, mockUnchanged>>

\* The sampled block_end is past the end: the loop is left, block_ids is
\* shuffled and Self is built with NonZeroUsize::new(n_blocks).unwrap().
FP_Return ==
    /\ pcMain = "from_params"
    /\ \E size \in block_sizes[1].min_size .. block_sizes[1].max_size_inclusive :
         block_start + size > LenIds
    /\ \E q \in SampleAxis(LenIds) : block_ids' = [o \in DOMAIN block_ids |-> block_ids[q[o]]]
    /\ n_blocks' = block_id
    /\ pcMain' = IF NonZeroUsize_new(block_id) = None THEN "aborted" ELSE "returned"
    /\ UNCHANGED <<block_id, block_start, mockUnchanged>>

NextMock == FP_Assign \/ FP_Return

SpecMock == InitMock /\ [][NextMock]_vars

(***************************************************************************)
(* lib.rs: MockData::save_npz_file and MockData::from_npz_file. A usize is *)
(* a sequence of usize_limbs 16-bit limbs, least significant first, and a  *)
(* u64 one of U64Limbs; the build has a 32-bit or a 64-bit usize. The      *)
(* MockData saved is n_blocks, block_ids, x_pinv and resid.                *)
(***************************************************************************)
\* The limbs tried: all bits clear and all bits set.
Limbs == {0, 65535}
UsizeWidths == {2, U64Limbs}

\* The values of a usize of w limbs, and its zero.
Usize(w) == [1 .. w -> Limbs]
UsizeZero(w) == [i \in 1 .. w |-> 0]

\* x as u64, on a usize: zero extension.
UsizeAsU64(x) == x \o [i \in 1 .. (U64Limbs - Len(x)) |-> 0]

\* x as usize as it would be if it went through a 32-bit integer.
U64AsUsize_Narrow(x, w) == SubSeq(x, 1, 2) \o [i \in 1 .. (w - 2) |-> 0]

\* x as usize, on a u64: the low limbs.
U64AsUsize(x, w) == SubSeq(x, 1, w)

\* A MockData exists (its n_blocks is a NonZeroUsize) and nothing is saved.
InitNpz ==
    /\ variant = "A" /\ ncpus = 2 /\ overflow_checks = FALSE
    /\ usize_limbs \in UsizeWidths
    /\ npz = None
    /\ loaded = None
    /\ resid \in ResidChoices
    /\ x_pinv \in XChoices
    /\ block_ids \in [Obs -> Usize(usize_limbs)]
    /\ block_id = 0
    /\ block_start = 0
    /\ n_blocks \in Usize(usize_limbs) \ {UsizeZero(usize_limbs)}
    /\ LibInit
    /\ pcMain = "save"
    /\ rep = 1
    /\ cov_b = Zeros
    /\ outer_pool_reserved = 0
    /\ inner_pool_blocks = 0
    /\ mutex = {}
    /\ pc = [t \in BlockRange(0) |-> "idle"]
    /\ stack = [w \in 1 .. NcpusOuter(ncpus) |-> <<>>]
    /\ half_sandwich = [t \in BlockRange(0) |-> <<>>]
    /\ feat = [t \in BlockRange(0) |-> [f \in Feats |-> "todo"]]
    /\ chan = <<>>
    /\ tx_handles = 0
    /\ pcAgg = "none"
    /\ n = 1
    /\ pcA = [r \in Reps |-> "idle"]
    /\ blockA = [r \in Reps |-> 0]
    /\ cov_bA = [r \in Reps |-> Zeros]
    /\ featA = [r \in Reps |-> [f \in Feats |-> "todo"]]
    /\ workerA = [r \in Reps |-> [f \in Feats |-> 0]]
    /\ cov_in = [r \in Reps |-> <<>>]
    /\ cov_out = [r \in Reps |-> <<>>]

npzUnchanged == <<variant, ncpus, overflow_checks, resid, x_pinv, block_ids, block_id,
                  block_start, n_blocks, libVars, usize_limbs, rep, cov_b, bVars,
                  taskVars, cVars, aVars, histVars>>

\* save_npz_file(&self, w): block_ids goes to u64 element by element,
\* n_blocks to a u64 array of one element, and the four arrays are added
\* under their names.
Npz_Save ==
    /\ pcMain = "save"
    /\ npz' = Some([n_blocks |-> <<UsizeAsU64(n_blocks)>>,
                    block_ids |-> [o \in DOMAIN block_ids |-> UsizeAsU64(block_ids[o])],
                    x_pinv |-> x_pinv,
                    resid |-> resid])
    /\ pcMain' = "load"
    /\ UNCHANGED <<loaded, npzUnchanged>>

\* from_npz_file(r): the four arrays are read by name, block_ids goes back
\* to usize, and n_blocks[0] as usize is unwrapped as a NonZeroUsize.
Npz_Load ==
    /\ pcMain = "load"
    /\ IF U64AsUsize(npz[1].n_blocks[1], usize_limbs) = UsizeZero(usize_limbs)
       THEN /\ pcMain' = "aborted"
            /\ UNCHANGED loaded
       ELSE /\ pcMain' = "loaded"
            /\ loaded' = Some([n_blocks |-> U64AsUsize(npz[1].n_blocks[1], usize_limbs),
                               block_ids |-> [o \in DOMAIN npz[1].block_ids |->
                                                U64AsUsize(npz[1].block_ids[o], usize_limbs)],
                               x_pinv |-> npz[1].x_pinv,
                               resid |-> npz[1].resid])
    /\ UNCHANGED <<npz, npzUnchanged>>

NextNpz == Npz_Save \/ Npz_Load

SpecNpz == InitNpz /\ [][NextNpz]_vars

(***************************************************************************)
(* The two programs that build an outer and an inner pool, on machines     *)
(* with 1 .. MaxCpus cpus (benchmark.rs up to 3, where it has one outer    *)
(* worker and its inner pool reaches two threads).                         *)
(***************************************************************************)
MaxCpus == 6

ConfigsSizing ==
    {<<"B", c>> : c \in 1 .. MaxCpus} \cup {<<"C", 1>>, <<"C", 2>>, <<"C", 3>>}

InitSizing == InitOf(ConfigsSizing)
NextSizing == Gen \/ NextB \/ NextC
SpecSizing == InitSizing /\ [][NextSizing]_vars

(***************************************************************************)
(* The naive single-threaded reference, block by block and feature by      *)
(* feature, computed from the dataset alone.                               *)
(***************************************************************************)
RECURSIVE RefDot(_, _, _, _)
\* Sum over the observations 1 .. o that carry label b of x_pinv * resid.
RefDot(b, p, f, o) ==
    IF o = 0 THEN 0
    ELSE (IF block_ids[o] = b THEN x_pinv[p][o] * resid[o][f] ELSE 0) + RefDot(b, p, f, o - 1)

RefHalf(b) == [p \in Preds |-> [f \in Feats |-> RefDot(b, p, f, n_obs)]]

RECURSIVE RefSum(_, _, _, _, _)
\* Entry (i, j) of feature f, summed over the blocks lo .. hi.
RefSum(lo, hi, f, i, j) ==
    IF hi < lo THEN 0
    ELSE RefHalf(hi)[i][f] * RefHalf(hi)[j][f] + RefSum(lo, hi - 1, f, i, j)

\* The accumulator the labels lo .. n_blocks give, from zero.
RefCov(lo) == [f \in Feats |-> [i \in Preds |-> [j \in Preds |-> RefSum(lo, n_blocks, f, i, j)]]]

Plus(c1, c2) == [f \in Feats |-> AddSlice(c1[f], c2[f])]

\* The repetitions that have ended.
Ended == {r \in Reps : cov_out[r] # <<>>}

(***************************************************************************)
(* C1                                                                      *)
(***************************************************************************)
\* The half sandwiches alive: computed, and not yet dropped by the end of
\* their block's closure.
LiveHalfSandwiches == {t \in Blocks : half_sandwich[t] # <<>>}

\* C1: in Variant B the number of half-sandwich matrices alive at once never
\* exceeds the width of the outer pool, ncpus_outer.
C1_LiveWithinOuterWidth ==
    variant = "B" => Cardinality(LiveHalfSandwiches) <= ncpus_outer

(***************************************************************************)
(* C2                                                                      *)
(***************************************************************************)
\* C2: in every variant a repetition ends with the accumulator equal to the
\* naive reference: for every feature the sum over the blocks of the outer
\* product of the block's half-sandwich column with itself.
C2_EqualsReference == \A r \in Ended : cov_out[r] = RefCov(0)

(***************************************************************************)
(* C3                                                                      *)
(***************************************************************************)
\* Every feature being written belongs to the one block whose body holds
\* the mutex, so no two writers share a feature slice and no two blocks
\* accumulate at once.
WritersHoldLock ==
    variant = "B" =>
        /\ \A t \in Blocks : pc[t] = "body" => mutex = {t}
        /\ \A u \in Busy : mutex = {u[1]}
        /\ \A u1, u2 \in Busy : u1[2] = u2[2] => u1 = u2

\* A step that changes the shared accumulator is the reset between
\* repetitions, or (B) the end of the write of one feature slice by the
\* block that holds the mutex, or (C) a step of the aggregator alone.
SharedWritePath ==
    cov_b' # cov_b =>
        \/ variant = "B" /\ pcMain = "rep" /\ cov_b' = Zeros
        \/ /\ variant = "B"
           /\ \E t \in Blocks, f \in Feats :
                /\ mutex = {t}
                /\ feat[t][f] = "busy"
                /\ feat' = [feat EXCEPT ![t][f] = "done"]
                /\ \A g \in Feats \ {f} : cov_b'[g] = cov_b[g]
        \/ /\ variant = "C"
           /\ pcAgg = "recv"
           /\ n' = n + 1
           /\ chan' = Tail(chan)
           /\ <<pc, feat, half_sandwich>>' = <<pc, feat, half_sandwich>>
           /\ \A g \in Feats \ {Head(chan)[2]} : cov_b'[g] = cov_b[g]

\* A step that changes a repetition's own accumulator (A) is its creation
\* or the end of the write of one feature slice of that repetition's
\* current block.
PrivateWritePath ==
    cov_bA' # cov_bA =>
        /\ variant = "A"
        /\ \E r \in Reps :
             /\ \A q \in Reps \ {r} : cov_bA'[q] = cov_bA[q]
             /\ \/ pcA[r] = "idle"
                \/ \E f \in Feats :
                     /\ featA[r][f] = "busy"
                     /\ featA' = [featA EXCEPT ![r][f] = "done"]
                     /\ blockA' = blockA
                     /\ \A g \in Feats \ {f} : cov_bA'[r][g] = cov_bA[r][g]

\* C3: the accumulator is written through one path per variant, no two
\* tasks write the same feature slice at once, and two blocks never
\* interleave their contributions to a feature.
C3_SingleWritePath ==
    /\ []WritersHoldLock
    /\ [][SharedWritePath /\ PrivateWritePath]_vars

\* Two features of one block are being written while another block waits
\* for the inner gate.
C3_TwoWritersOneBlock ==
    /\ variant = "B"
    /\ Cardinality(Busy) >= 2
    /\ \E t \in Blocks : pc[t] = "wait_inner"

(***************************************************************************)
(* C4                                                                      *)
(***************************************************************************)
\* Block t has entered its closure and its accumulation is not complete.
Pending(t) ==
    IF t \in Blocks
    THEN pc[t] \in {"slot", "wait_outer", "compute", "gate", "wait_inner", "installed", "body"}
    ELSE FALSE

Accumulated(t) == IF t \in Blocks THEN pc[t] \in {"latched", "done"} ELSE FALSE

\* C4: Variant B never reaches a state where nothing can run before the
\* repetitions are over; under fair scheduling every block task that has
\* started gets its accumulation completed, and the run completes.
C4_DeadlockFreeAndTerminates ==
    /\ [](pcMain # "done" => ENABLED NextOnlyB)
    /\ \A t \in 0 .. n_obs : Pending(t) ~> Accumulated(t)
    /\ <>(pcMain = "done")

\* A worker has nested one block task on another while one task waits on
\* each condition variable.
C4_NestedAndWaiting ==
    /\ variant = "B"
    /\ \E w \in Workers : Len(stack[w]) >= 2
    /\ \E t \in Blocks : pc[t] = "wait_outer"
    /\ \E t \in Blocks : pc[t] = "wait_inner"

(***************************************************************************)
(* C5                                                                      *)
(***************************************************************************)
\* Contributions produced and not yet received: those in the buffer and
\* those held by senders blocked on the full buffer.
InFlight == Len(chan) + Cardinality(Busy)

\* C5 as stated: in Variant C the contributions in flight never exceed the
\* channel's capacity.
C5_InFlightWithinCapacity == variant = "C" => InFlight <= Capacity

\* C5: in Variant C the buffer never holds more than the channel's capacity,
\* and the contributions in flight never exceed the capacity plus one per
\* worker of the inner pool.
C5_InFlightWithinCapacityPlusSenders ==
    variant = "C" =>
        /\ Len(chan) <= Capacity
        /\ Cardinality(Busy) <= ncpus_inner
        /\ InFlight <= Capacity + ncpus_inner

\* The buffer is full and every worker of the inner pool is blocked in send.
C5_FullAndAllBlocked ==
    /\ variant = "C"
    /\ Len(chan) = Capacity
    /\ Cardinality(Busy) = ncpus_inner

(***************************************************************************)
(* C6                                                                      *)
(***************************************************************************)
\* thread::scope has returned (or unwound) in the current or an earlier
\* repetition.
ScopeOver == pcMain \in {"done", "aborted"} \/ (pcMain = "rep" /\ rep > 1)

C7_IdempotentReset ==
    /\ \A r \in Reps : cov_in[r] # <<>> => cov_in[r] = Zeros
    /\ \A r1, r2 \in Ended : cov_out[r1] = cov_out[r2]

(***************************************************************************)
(* C8                                                                      *)
(***************************************************************************)
\* C8 as stated: a repetition adds the contributions of the labels 1 ..
\* n_blocks only; the observations labelled 0 contribute nothing.
C8_LabelZeroExcluded == \A r \in Ended : cov_out[r] = Plus(cov_in[r], RefCov(1))

\* C8: label 0 is a block like the others: in every variant a repetition
\* adds the contributions of the labels 0 .. n_blocks to the accumulator.
C8_LabelZeroIsABlock == \A r \in Ended : cov_out[r] = Plus(cov_in[r], RefCov(0))

\* A repetition has ended on a dataset with blocks 1 .. n_blocks and a
\* remainder labelled 0 whose contribution is not zero.
C8_RemainderContributes ==
    /\ Ended # {}
    /\ n_blocks >= 1
    /\ RefCov(0) # RefCov(1)

(***************************************************************************)
(* C9                                                                      *)
(***************************************************************************)
RECURSIVE DotAll(_, _, _)
\* Entry (p, f) of x_pinv . resid over the observations 1 .. o.
DotAll(p, f, o) == IF o = 0 THEN 0 ELSE x_pinv[p][o] * resid[o][f] + DotAll(p, f, o - 1)

\* For every feature, the outer product of the column of x_pinv . resid
\* with itself.
WholeSandwich ==
    [f \in Feats |-> [i \in Preds |-> [j \in Preds |->
        DotAll(i, f, n_obs) * DotAll(j, f, n_obs)]]]

BlockSize(b) == Cardinality({o \in Obs : block_ids[o] = b})

\* C10: the half sandwich of an empty block is a zero matrix, so that its
\* contribution leaves the accumulator unchanged, and no block of size 0 or
\* 1 fails, in any variant.
C10_SmallBlocksHarmless ==
    \A t \in Blocks :
        /\ (BlockSize(t) = 0 /\ half_sandwich[t] # <<>>) =>
               half_sandwich[t] = [p \in Preds |-> [f \in Feats |-> 0]]
        /\ BlockSize(t) <= 1 => pc[t] \notin {"failed", "panicked"}

(***************************************************************************)
(* C11                                                                     *)
(***************************************************************************)
\* The labels are generated and the program is running its repetitions.
Running == pcMain \in {"rep", "outer", "dropped", "unwinding", "done"}

\* The observations in the index set the program derives for block b.
IndexSet(b) ==
    {BlockIndices(block_ids, b)[k] : k \in 1 .. Len(BlockIndices(block_ids, b))}

\* The index sets of the blocks a repetition processes do not overlap.
IndexSetsDisjoint ==
    \A b1, b2 \in Blocks : b1 # b2 => IndexSet(b1) \cap IndexSet(b2) = {}

\* C11 as stated: once the labels are generated, the index sets of the
\* processed blocks are pairwise disjoint and their union is the set of the
\* observations with a non-zero label.
C11_PartitionOfNonZeroLabels ==
    Running =>
        /\ IndexSetsDisjoint
        /\ UNION {IndexSet(b) : b \in Blocks} = {o \in Obs : block_ids[o] # 0}

\* C11: once the labels are generated, the index sets of the processed
\* blocks 0 .. n_blocks are pairwise disjoint, each holds exactly the
\* observations of its label, and their union is the set of all
\* observations, those labelled 0 included.
C11_PartitionOfAllObservations ==
    Running =>
        /\ IndexSetsDisjoint
        /\ \A b \in Blocks : IndexSet(b) = {o \in Obs : block_ids[o] = b}
        /\ UNION {IndexSet(b) : b \in Blocks} = Obs

\* A repetition has ended on a dataset with the single block 1, of size 1,
\* and a remainder labelled 0.
C11_SingleBlockOfOne ==
    /\ Ended # {}
    /\ n_blocks = 1
    /\ Cardinality(IndexSet(1)) = 1
    /\ IndexSet(0) # {}

(***************************************************************************)
(* C12                                                                     *)
(***************************************************************************)
\* A feature slice that a worker has taken is never taken by another worker.
SliceKeepsItsWorker ==
    \A r \in Reps, f \in Feats : workerA[r][f] # 0 => workerA'[r][f] = workerA[r][f]

\* C12 as stated: in Variant A every worker owns its feature slices across
\* the entire block loop: within a repetition no slice is touched by two
\* workers.
C12_WorkersOwnSlices == [][SliceKeepsItsWorker]_vars

\* The slices being written have one worker each, and no worker writes two.
OneWorkerPerSlice ==
    \A u1, u2 \in BusyA :
        /\ workerA[u1[1]][u1[2]] # 0
        /\ u1 # u2 => workerA[u1[1]][u1[2]] # workerA[u2[1]][u2[2]]

\* A slice keeps its worker while it is written, is written once per block,
\* and the repetition moves to the next block only when every slice of the
\* current block is written.
OneBlockAtATime ==
    \A r \in Reps :
        /\ \A f \in Feats :
             /\ featA[r][f] = "busy" => workerA'[r][f] = workerA[r][f]
             /\ (featA[r][f] = "done" /\ featA'[r][f] # "done") => blockA'[r] # blockA[r]
        /\ (blockA'[r] # blockA[r] /\ pcA[r] = "block") =>
             /\ blockA'[r] = blockA[r] + 1
             /\ \A f \in Feats : featA[r][f] = "done"

\* C12: in Variant A no feature slice is written by two workers at the same
\* time: the loop over blocks is sequential and every block hands each
\* feature slice to one worker; the worker may differ from block to block.
C12_OneWriterPerSliceAtATime ==
    /\ [](variant = "A" => OneWorkerPerSlice)
    /\ [][variant = "A" => OneBlockAtATime]_vars

\* Past the first block, both feature slices of a repetition are being
\* written.
C12_ParallelSlicesLaterBlock ==
    /\ variant = "A"
    /\ \E r \in Reps : blockA[r] >= 1 /\ \A f \in Feats : featA[r][f] = "busy"

(***************************************************************************)
(* C13                                                                     *)
(***************************************************************************)
\* Every P x P slice of the accumulator c equals its transpose.
Symmetric(c) == \A f \in Feats : \A i, j \in Preds : c[f][i][j] = c[f][j][i]

\* The accumulators a run holds: the shared one, every repetition's own one
\* in Variant A, and the one every ended repetition left.
Accumulators == {cov_b} \cup {cov_bA[r] : r \in Reps} \cup {cov_out[r] : r \in Ended}

\* C13: in every variant, after every completed per-feature update and at
\* the end of every repetition, each P x P slice of the accumulator is
\* symmetric; so is every update waiting in Variant C's channel.
C13_SlicesSymmetric ==
    /\ \A c \in Accumulators : Symmetric(c)
    /\ \A k \in 1 .. Len(chan) : \A i, j \in Preds : chan[k][1][i][j] = chan[k][1][j][i]

\* A repetition has ended with a non-zero off-diagonal entry, and a
\* per-feature update has completed in a repetition still running.
C13_OffDiagonalNonZero ==
    /\ \E r \in Ended : \E f \in Feats : \E i, j \in Preds : i # j /\ cov_out[r][f][i][j] # 0
    /\ \/ \E t \in Blocks : \E f, g \in Feats : feat[t][f] = "done" /\ feat[t][g] # "done"
       \/ \E r \in Reps : \E f, g \in Feats : featA[r][f] = "done" /\ featA[r][g] # "done"

(***************************************************************************)
(* C14                                                                     *)
(***************************************************************************)
\* The BlockSizes value that exists, if any.
Sizes == block_sizes[1]

\* C14: BlockSizes::new returns None exactly when max_size_inclusive <
\* min_size; BlockSizes::new_from_usize returns None exactly when a size is
\* 0 or max_size_inclusive < min_size; neither panics; every BlockSizes
\* value that exists has 1 <= min_size <= max_size_inclusive, and get()
\* returns that pair, which is the pair the constructor was given.
C14_InvalidRangesAreNone ==
    /\ ctor = "new" => (block_sizes = None <=> size_args[2] < size_args[1])
    /\ ctor = "new_from_usize" =>
         (block_sizes = None <=>
            size_args[1] = 0 \/ size_args[2] = 0 \/ size_args[2] < size_args[1])
    /\ ctor # "none" => block_sizes = None \/ Len(block_sizes) = 1
    /\ block_sizes # None =>
         /\ 1 <= Sizes.min_size
         /\ Sizes.min_size <= Sizes.max_size_inclusive
         /\ got # <<>> => got = <<Sizes.min_size, Sizes.max_size_inclusive>>
         /\ ctor \in {"new", "new_from_usize"} =>
              <<Sizes.min_size, Sizes.max_size_inclusive>> = size_args
    /\ block_sizes = None => got = <<>>

\* new_from_usize was given two equal non-zero sizes and get() has returned
\* them.
C14_EqualSizesRead ==
    /\ ctor = "new_from_usize"
    /\ size_args[1] = size_args[2]
    /\ got = size_args

(***************************************************************************)
(* C15                                                                     *)
(***************************************************************************)
\* MockData::from_params has returned a dataset (benchmark-multi's data).
Produced == variant = "A" /\ Running

\* C15: every element of the block_ids that MockData::from_params produces
\* is an integer from 0 up to but excluding n_blocks.
C15_IdsBelowNBlocks ==
    Produced => \A o \in Obs : block_ids[o] \in 0 .. n_blocks - 1

(***************************************************************************)
(* C16                                                                     *)
(***************************************************************************)
\* A producer's send has failed because the receiver has hung up.
SendFailed == variant = "C" /\ \E t \in Blocks : \E f \in Feats : feat[t][f] = "panicked"

\* A lock of the accumulator's mutex has failed because it is poisoned.
LockFailed ==
    /\ Poisoned
    /\ \E t \in Blocks :
         /\ pc[t] \in {"failed", "panicked"}
         /\ \A f \in Feats : feat[t][f] # "panicked"

\* The repetition under way has not ended and cannot be taken for complete.
NotCompleted ==
    /\ pcMain \in {"outer", "dropped", "unwinding", "aborted"}
    /\ cov_out[rep] = <<>>

RECURSIVE RowForm(_, _, _, _)
\* x[i] * (m[i][1] * x[1] + .. + m[i][j] * x[j])
RowForm(m, x, i, j) ==
    IF j = 0 THEN 0 ELSE x[i] * m[i][j] * x[j] + RowForm(m, x, i, j - 1)

RECURSIVE QuadForm(_, _, _)
\* The quadratic form of the rows 1 .. i of m at x; with i = n_pred it is
\* x^T m x.
QuadForm(m, x, i) ==
    IF i = 0 THEN 0 ELSE RowForm(m, x, i, n_pred) + QuadForm(m, x, i - 1)

\* The vectors tried.
Vectors == [Preds -> (0 - QuadCoeff) .. QuadCoeff]

\* C17: at the end of every repetition every P x P slice of the accumulator
\* is positive semi-definite: its quadratic form is >= 0 at every vector
\* tried, and every diagonal entry is >= 0.
C17_SlicesPositiveSemiDefinite ==
    \A r \in Ended : \A f \in Feats :
        /\ \A x \in Vectors : QuadForm(cov_out[r][f], x, n_pred) >= 0
        /\ \A i \in Preds : cov_out[r][f][i][i] >= 0

\* A repetition has ended with a slice that has a negative entry off the
\* diagonal and a form that is positive at one vector.
C17_NegativeEntryPositiveForm ==
    \E r \in Ended : \E f \in Feats :
        /\ \E i, j \in Preds : cov_out[r][f][i][j] < 0
        /\ \E x \in Vectors : QuadForm(cov_out[r][f], x, n_pred) > 0

(***************************************************************************)
(* C18                                                                     *)
(***************************************************************************)
\* The block tasks between slot acquisition and slot release.
SlotHolders ==
    {t \in Blocks : pc[t] \in {"compute", "gate", "wait_inner", "installed", "body"}}

\* The counter is within the outer pool's width and counts the tasks that
\* hold a slot.
SlotCounterBounded ==
    /\ outer_pool_reserved \in 0 .. ncpus_outer
    /\ Cardinality(SlotHolders) = outer_pool_reserved

\* A step that increments the counter is taken by one task at the slot
\* gate, with the mutex free for it to lock and the counter seen below
\* ncpus_outer; a task woken from the wait tests the counter again before
\* it goes on.
SlotTakenAfterTest ==
    /\ outer_pool_reserved' > outer_pool_reserved =>
         /\ outer_pool_reserved' = outer_pool_reserved + 1
         /\ outer_pool_reserved < ncpus_outer
         /\ mutex = {}
         /\ \E t \in Blocks :
              /\ pc[t] = "slot" /\ pc'[t] = "compute"
              /\ \A u \in Blocks \ {t} : pc'[u] = pc[u]
    /\ \A t \in Blocks :
         /\ pc'[t] = "compute" /\ pc[t] # "compute" => pc[t] = "slot"
         /\ pc[t] = "wait_outer" => pc'[t] \in {"wait_outer", "slot"}

\* C18: in Variant B outer_pool_reserved <= ncpus_outer in every reachable
\* state; a block task increments it only under the mutex after seeing it
\* below ncpus_outer, testing again after every wake-up; so at most
\* ncpus_outer block tasks are between slot acquisition and slot release.
C18_SlotCounterWithinWidth ==
    /\ [](variant = "B" /\ pcMain = "outer" => SlotCounterBounded)
    /\ [][variant = "B" /\ pcMain = "outer" /\ pcMain' = "outer" => SlotTakenAfterTest]_vars

\* Two outer workers, both slots taken, and a third block task waiting for
\* one.
C18_SlotsFullOneWaiting ==
    /\ variant = "B"
    /\ ncpus_outer = 2
    /\ outer_pool_reserved = 2
    /\ \E t \in Blocks : pc[t] = "wait_outer"

(***************************************************************************)
(* C19                                                                     *)
(***************************************************************************)
\* The blocks whose accumulation body is queued or running on the inner
\* pool.
InnerBodies == {t \in Blocks : pc[t] \in {"installed", "body"}}

\* C19: in Variant B inner_pool_blocks is 0 or 1 in every reachable state
\* and at most one block's accumulation body is queued or running on the
\* inner pool; so a body that is about to lock the accumulator's mutex never
\* finds it held by another body.
C19_OneBodyOnInnerPool ==
    variant = "B" /\ pcMain = "outer" =>
        /\ inner_pool_blocks \in {0, 1}
        /\ Cardinality(InnerBodies) = inner_pool_blocks
        /\ \A t \in Blocks : pc[t] = "installed" => mutex = {}
        /\ mutex \subseteq InnerBodies

\* A body is writing under the mutex while another block, on the second
\* outer worker, waits at the inner gate with its half sandwich computed.
C19_BodyRunsOtherWaits ==
    /\ variant = "B"
    /\ inner_pool_blocks = 1
    /\ \E t \in Blocks : mutex = {t} /\ \E f \in Feats : feat[t][f] = "busy"
    /\ \E t \in Blocks : pc[t] = "wait_inner" /\ half_sandwich[t] # <<>>

(***************************************************************************)
(* C20                                                                     *)
(***************************************************************************)
\* The block tasks that block (in a condition variable's wait) or yield
\* their outer worker (in pool_inner.install, until the body has released).
BlockedOrYielding ==
    {t \in Blocks : pc[t] \in {"wait_outer", "wait_inner", "installed", "body"}}

\* Every lock held is held by a running body, which took it after dispatch.
LockHeldInsideBody == \A t \in mutex : t \in Blocks /\ pc[t] = "body"

\* The mutex is taken only by the step that starts a dispatched body, and a
\* step of a task at one of the two gates leaves the mutex free, whether the
\* task goes on or waits.
LockTakenAfterDispatch ==
    /\ (mutex' # mutex /\ mutex' # {}) =>
         \E t \in Blocks : mutex = {} /\ mutex' = {t} /\ pc[t] = "installed" /\ pc'[t] = "body"
    /\ \A t \in Blocks :
         (pc[t] \in {"slot", "gate"} /\ pc'[t] # pc[t]) => mutex = {} /\ mutex' = {}

\* C20: in Variant B a block task holds no lock when it calls
\* pool_inner.install; the mutex is acquired inside the inner-pool body and
\* never before dispatch; both gate sections release the mutex before the
\* task continues; so no task blocks or yields holding a lock it took before
\* it was handed to the inner pool.
C20_NoLockAcrossDispatch ==
    /\ [](variant = "B" /\ pcMain = "outer" =>
            /\ LockHeldInsideBody
            /\ \A t \in BlockedOrYielding : pc[t] # "body" => t \notin mutex)
    /\ [][variant = "B" /\ pcMain = "outer" /\ pcMain' = "outer" => LockTakenAfterDispatch]_vars

\* An outer worker has yielded in pool_inner.install for a block whose body
\* holds the mutex, and the block it runs meanwhile is blocked at a gate.
C20_YieldedWhileBodyLocked ==
    /\ variant = "B"
    /\ \E w \in Workers :
         /\ Len(stack[w]) >= 2
         /\ mutex = {stack[w][1]}
         /\ pc[Top(stack[w])] \in {"wait_outer", "wait_inner"}

(***************************************************************************)
(* C21                                                                     *)
(***************************************************************************)
\* Block t's body, holding the mutex with every feature accumulated, takes
\* the release step: both counters go down by one and the lock is dropped.
ReleasedInBody(t) ==
    /\ pc[t] = "body"
    /\ mutex = {t}
    /\ \A f \in Feats : feat[t][f] = "done"
    /\ pc'[t] = "latched"
    /\ inner_pool_blocks' = inner_pool_blocks - 1
    /\ outer_pool_reserved' = outer_pool_reserved - 1
    /\ mutex' = {}

\* A waiter is signalled: it leaves the wait of a condition variable.
Signalled ==
    \E u \in Blocks :
        \/ pc[u] = "wait_inner" /\ pc'[u] # "wait_inner"
        \/ pc[u] = "wait_outer" /\ pc'[u] # "wait_outer"

\* A gate is released or a waiter signalled only by the release step of a
\* body, which wakes one waiter of each condition variable that has any;
\* the step after pool_inner.install has returned touches no gate and
\* signals nobody.
GatesReleasedInBodyOnly ==
    /\ (\/ inner_pool_blocks' < inner_pool_blocks
        \/ outer_pool_reserved' < outer_pool_reserved
        \/ Signalled) => \E t \in Blocks : ReleasedInBody(t)
    /\ (\E t \in Blocks : ReleasedInBody(t)) =>
         /\ (\E u \in Blocks : pc[u] = "wait_inner") =>
                \E u \in Blocks : pc[u] = "wait_inner" /\ pc'[u] = "gate"
         /\ (\E u \in Blocks : pc[u] = "wait_outer") =>
                \E u \in Blocks : pc[u] = "wait_outer" /\ pc'[u] = "slot"
    /\ \A t \in Blocks :
         pc[t] = "latched" /\ pc'[t] # "latched" =>
             /\ inner_pool_blocks' = inner_pool_blocks
             /\ outer_pool_reserved' = outer_pool_reserved
             /\ ~Signalled

\* C21: in Variant B each body, only after its feature accumulation has
\* completed and while it still holds the mutex, decrements both counters
\* and signals both condition variables; no gate is released and nobody is
\* signalled by the code that runs after pool_inner.install has returned.
C21_ReleaseInsideBody ==
    [][variant = "B" /\ pcMain = "outer" /\ pcMain' = "outer" => GatesReleasedInBodyOnly]_vars

\* With one outer worker, a nested block has taken the slot that the block
\* below it released in its body, before that block's install has returned.
C21_SlotReusedBeforeReturn ==
    /\ variant = "B"
    /\ ncpus_outer = 1
    /\ Len(stack[1]) = 2
    /\ pc[stack[1][1]] = "latched"
    /\ pc[stack[1][2]] = "compute"

(***************************************************************************)
(* C22                                                                     *)
(***************************************************************************)
\* The positions between slot acquisition and slot release.
SlotPositions == {"compute", "gate", "wait_inner", "installed", "body"}

\* A task whose half sandwich exists holds a slot or has released it at the
\* end of its accumulation; the counter counts the holders.
HalfSandwichUnderSlot ==
    /\ \A t \in Blocks :
         half_sandwich[t] # <<>> =>
             \/ pc[t] \in SlotPositions
             \/ pc[t] = "latched" /\ \A f \in Feats : feat[t][f] = "done"
    /\ Cardinality({t \in Blocks : pc[t] \in SlotPositions}) = outer_pool_reserved

\* A task reaches the computation only through the step that takes a slot,
\* computes its half sandwich only there, and leaves the slot positions only
\* by the release step of its own body, with every feature accumulated.
SlotHeldThroughout ==
    \A t \in Blocks :
        /\ (pc'[t] = "compute" /\ pc[t] # "compute") =>
               /\ pc[t] = "slot"
               /\ outer_pool_reserved < ncpus_outer
               /\ outer_pool_reserved' = outer_pool_reserved + 1
        /\ (half_sandwich[t] = <<>> /\ half_sandwich'[t] # <<>>) => pc[t] = "compute"
        /\ (pc[t] \in SlotPositions /\ pc'[t] \in SlotPositions) =>
               outer_pool_reserved' >= outer_pool_reserved \/ \E u \in Blocks \ {t} : ReleasedInBody(u)
        /\ (pc[t] \in SlotPositions /\ pc'[t] \notin SlotPositions) => ReleasedInBody(t)

\* C22: in Variant B every block task takes an outer slot before it computes
\* its half sandwich and holds it, through the wait for the inner gate and
\* through the accumulation, until its own accumulation has completed; no
\* half sandwich is computed by a task that holds no slot.
C22_SlotBeforeHalfSandwich ==
    /\ [](variant = "B" /\ pcMain = "outer" => HalfSandwichUnderSlot)
    /\ [][variant = "B" /\ pcMain = "outer" /\ pcMain' = "outer" => SlotHeldThroughout]_vars

\* Both slots of a two-worker outer pool are held, one by a block that
\* waits for the inner gate with its half sandwich computed and one by the
\* block whose body accumulates, while a third block, without half
\* sandwich, waits for a slot.
C22_HoldingWhileWaitingInner ==
    /\ variant = "B"
    /\ outer_pool_reserved = 2
    /\ \E t \in Blocks : pc[t] = "wait_inner" /\ half_sandwich[t] # <<>>
    /\ \E t \in Blocks : pc[t] = "body" /\ \E f \in Feats : feat[t][f] = "done"
    /\ \E t \in Blocks : pc[t] = "wait_outer" /\ half_sandwich[t] = <<>>

(***************************************************************************)
(* C23                                                                     *)
(***************************************************************************)
\* The (block, feature) units whose message has been sent.
SentUnits == {u \in Blocks \X Feats : feat[u[1]][u[2]] = "done"}

RECURSIVE ChanSum(_, _, _, _)
\* Entry (i, j) of the messages 1 .. k of the buffer that carry feature f.
ChanSum(k, f, i, j) ==
    IF k = 0 THEN 0
    ELSE (IF chan[k][2] = f THEN chan[k][1][i][j] ELSE 0) + ChanSum(k - 1, f, i, j)

RECURSIVE SentSum(_, _, _, _)
\* Entry (i, j) of feature f, summed over the blocks 0 .. b whose unit of
\* feature f has been sent.
SentSum(b, f, i, j) ==
    IF b < 0 THEN 0
    ELSE (IF <<b, f>> \in SentUnits THEN RefHalf(b)[i][f] * RefHalf(b)[j][f] ELSE 0)
         + SentSum(b - 1, f, i, j)

\* While a repetition runs, what the accumulator has gained plus what the
\* buffer holds, feature by feature, is what the sent units contribute, and
\* the messages received plus those buffered are as many as the sent units:
\* no message is lost, duplicated or added to another feature's slice.
DeliveryConserved ==
    (variant = "C" /\ pcMain \in {"outer", "dropped", "unwinding", "aborted"}
                   /\ pcAgg # "panicked") =>
        /\ \A f \in Feats : \A i, j \in Preds :
             cov_b[f][i][j] + ChanSum(Len(chan), f, i, j)
                 = cov_in[rep][f][i][j] + SentSum(n_blocks, f, i, j)
        /\ (n - 1) + Len(chan) = Cardinality(SentUnits)

\* When the scope is over every unit has sent its message and the
\* aggregator has received them all.
AllDelivered ==
    (variant = "C" /\ ScopeOver) =>
        /\ SentUnits = Blocks \X Feats
        /\ chan = <<>>
        /\ n - 1 = n_feat * Cardinality(Blocks)

\* C23: in Variant C every (block, feature) unit sends exactly one message,
\* and every message sent is received by the aggregator and added to the
\* slice of its feature exactly once before the thread scope returns; no
\* message is lost, duplicated or added to another feature's slice.
C23_ExactlyOnceDelivery == DeliveryConserved /\ AllDelivered

(***************************************************************************)
(* C24                                                                     *)
(***************************************************************************)
\* The send of unit (t, f) is blocked on the full channel.
SendBlocked(t, f) ==
    IF variant = "C" /\ pcMain = "outer" /\ t \in Blocks THEN feat[t][f] = "busy" ELSE FALSE

\* The send of unit (t, f) has completed.
SendCompleted(t, f) == IF t \in Blocks THEN feat[t][f] = "done" ELSE FALSE

\* C24: in Variant C, under fair scheduling and for every capacity
\* ncpus_inner + ncpus_outer >= 2, every producer blocked on the full
\* channel eventually completes its send, the outer pool finishes all
\* blocks, the original tx is dropped, the aggregator exits and every
\* repetition terminates.
C24_RepetitionsTerminate ==
    /\ \A t \in 0 .. n_obs : \A f \in Feats : SendBlocked(t, f) ~> SendCompleted(t, f)
    /\ (variant = "C" /\ pcMain = "outer")
           ~> (pcAgg = "exited" /\ tx_handles = 0 /\ \A t \in Blocks : pc[t] = "done")
    /\ variant = "C" => <>(pcMain = "done")

(***************************************************************************)
(* C25                                                                     *)
(***************************************************************************)
\* The contributions the aggregator has received in this repetition.
Received == n - 1

\* The percentages the aggregator has printed: the rounded percentage of
\* every update that raised the indicator.
Reported == {PctRound(k) : k \in {u \in 1 .. Received : PctExceeds(u, PctAfter(u - 1))}}

\* C25: in Variant C the contributions the aggregator receives in one
\* repetition are never more than the total it divides by, n_total = n_feat
\* * n_blocks, and as many when the repetition ends; the reported
\* percentage never exceeds 100; and n_total is not 0 when a contribution is
\* received.
C25_ReceivedWithinTotal ==
    variant = "C" =>
        /\ Received <= n_total
        /\ (pcAgg = "exited" /\ pcMain # "aborted") => Received = n_total
        /\ \A p \in Reported : p <= 100
        /\ Received > 0 => n_total # 0

(***************************************************************************)
(* C26                                                                     *)
(***************************************************************************)
\* The observations that carry label k.
Carriers(k) == {o \in DOMAIN block_ids : block_ids[o] = k}

\* The labels are in 0 .. block_id, every assigned label is carried by
\* min_size .. max_size_inclusive observations and label 0 by the
\* observations from block_start on.
LabelsWellFormed ==
    /\ \A o \in DOMAIN block_ids : block_ids[o] \in 0 .. block_id
    /\ \A k \in 1 .. block_id :
         /\ Cardinality(Carriers(k)) >= block_sizes[1].min_size
         /\ Cardinality(Carriers(k)) <= block_sizes[1].max_size_inclusive
    /\ Cardinality(Carriers(0)) = LenIds - block_start

\* The shuffle changes no label's count.
ShufflePreservesCounts ==
    (pcMain = "from_params" /\ pcMain' # "from_params") =>
        \A k \in 0 .. block_id : Cardinality(Carriers(k))' = Cardinality(Carriers(k))

\* C26: for every valid MockParams the label vector of from_params has its
\* labels in 0 .. n_blocks, each label 1 .. n_blocks carried by min_size ..
\* max_size_inclusive observations and label 0 only by the unassigned
\* remainder, which is shorter than max_size_inclusive; the final shuffle
\* changes no label's count.
C26_LabelsWellFormed ==
    /\ [](LabelsWellFormed
          /\ (pcMain # "from_params" =>
                /\ n_blocks = block_id
                /\ Cardinality(Carriers(0)) < block_sizes[1].max_size_inclusive))
    /\ [][ShufflePreservesCounts]_vars

\* from_params has returned four observations for sizes 2 .. 3: one block
\* of two and a remainder of two, which no block fits, out of their order.
C26_ShuffledWithRemainder ==
    /\ pcMain = "returned"
    /\ LenIds = 4
    /\ block_sizes[1] = [min_size |-> 2, max_size_inclusive |-> 3]
    /\ n_blocks = 1
    /\ Cardinality(Carriers(1)) = 2
    /\ Cardinality(Carriers(0)) = 2
    /\ block_ids[1] = 0 /\ block_ids[2] = 1 /\ block_ids[3] = 0

(***************************************************************************)
(* C27                                                                     *)
(***************************************************************************)
\* ncpus - ncpus_outer does not go below 0 in usize.
NoUnderflow == ncpus - ncpus_outer >= 0

\* The sizes the two pools are built with.
SizesAsComputed ==
    /\ ncpus_outer = (IF ncpus < 5 THEN 1 ELSE 2)
    /\ NoUnderflow
    /\ ncpus_inner = (IF ncpus - ncpus_outer >= 1 THEN ncpus - ncpus_outer ELSE 1)
    /\ ncpus_inner >= 1
    /\ DOMAIN stack = 1 .. ncpus_outer

\* C27 as stated: for every ncpus >= 1 the sizes are as computed and the
\* inner pool gets exactly the remainder, ncpus_outer + ncpus_inner = ncpus.
C27_InnerGetsRemainder ==
    (variant \in {"B", "C"} /\ ncpus >= 1) =>
        SizesAsComputed /\ ncpus_outer + ncpus_inner = ncpus

\* C27, amended: for every ncpus >= 1, ncpus_outer is 1 when ncpus < 5 and 2
\* otherwise, ncpus_inner = max(1, ncpus - ncpus_outer) is computed without
\* unsigned underflow and is >= 1; the two sizes add up to ncpus when ncpus
\* >= 2, and to 2 on a single cpu, where both pools get one thread.
C27_PoolSizing ==
    (variant \in {"B", "C"} /\ ncpus >= 1) =>
        /\ SizesAsComputed
        /\ ncpus >= 2 => ncpus_outer + ncpus_inner = ncpus
        /\ ncpus = 1 => ncpus_outer = 1 /\ ncpus_inner = 1

\* The mutex program has finished its repetitions on a single cpu, with one
\* outer and one inner thread.
C27_SingleCpuRun ==
    /\ variant = "B"
    /\ ncpus = 1
    /\ ncpus_inner = 1
    /\ pcMain = "done"
    /\ n_blocks >= 1

(***************************************************************************)
(* C28                                                                     *)
(***************************************************************************)
\* A block task that has aborted although none of its sends failed: the
\* panic came from building the iterator.
AbortedBeforeSending(t) ==
    /\ pc[t] = "failed"
    /\ \A f \in Feats : feat[t][f] = "todo"

\* C28: in Variant C, for every ncpus >= 1, the divisor ncpus_inner - 1 of
\* the minimum chunk length is not 0, and no block task aborts on the
\* division.
C28_ChunkFloorDivisorNonZero ==
    variant = "C" =>
        \A t \in DOMAIN pc :
            pc[t] # "idle" => MinLenDivisor # 0 /\ ~AbortedBeforeSending(t)

(***************************************************************************)
(* C29                                                                     *)
(***************************************************************************)
\* C29: for every valid MockParams, also with n_obs below a size that can
\* be sampled, from_params does not panic and the MockData it returns has
\* n_blocks >= 1; block_start stays within the observations.
C29_FromParamsReturns ==
    /\ pcMain # "aborted"
    /\ pcMain = "returned" => n_blocks >= 1
    /\ block_start <= LenIds

(***************************************************************************)
(* C30                                                                     *)
(***************************************************************************)
\* The block tasks between their increment of inner_pool_blocks and their
\* decrement of it.
GateHolders == {t \in Blocks : pc[t] \in {"installed", "body"}}

\* Each counter counts the block tasks that have incremented it and not yet
\* decremented it.
CountersMatchHolders ==
    /\ outer_pool_reserved = Cardinality(SlotHolders)
    /\ inner_pool_blocks = Cardinality(GateHolders)

\* The outer pool's pass over all blocks has returned.
PassReturned == pcMain \in {"rep", "done"} /\ cov_out[1] # <<>>

\* A counter goes down by one at a time, in the release of a task that holds
\* both gates.
DecrementByHolder ==
    (outer_pool_reserved' < outer_pool_reserved \/ inner_pool_blocks' < inner_pool_blocks) =>
        /\ outer_pool_reserved' = outer_pool_reserved - 1
        /\ inner_pool_blocks' = inner_pool_blocks - 1
        /\ \E t \in SlotHolders \cap GateHolders : pc'[t] = "latched"

\* C30: in Variant B outer_pool_reserved and inner_pool_blocks never go
\* below 0, every decrement is by a block task that made the matching
\* increment, and both are 0 whenever the outer pool's pass over all blocks
\* has returned.
C30_CountersBalanced ==
    /\ [](variant = "B" =>
            /\ outer_pool_reserved >= 0
            /\ inner_pool_blocks >= 0
            /\ pcMain = "outer" => CountersMatchHolders
            /\ PassReturned => outer_pool_reserved = 0 /\ inner_pool_blocks = 0)
    /\ [][variant = "B" /\ pcMain = "outer" /\ pcMain' = "outer" => DecrementByHolder]_vars

\* The first pass over three blocks has returned on two outer workers and
\* the second repetition is about to start with both gates free.
C30_SecondRepetitionStartsFree ==
    /\ variant = "B"
    /\ ncpus_outer = 2
    /\ n_blocks = 2
    /\ pcMain = "rep"
    /\ rep = 2
    /\ cov_out[1] # <<>>
    /\ outer_pool_reserved = 0
    /\ inner_pool_blocks = 0

(***************************************************************************)
(* C31                                                                     *)
(***************************************************************************)
\* The accumulator of a repetition run alone that is at block b with the
\* features in done added: the blocks before b for every feature, and block
\* b as well for the features in done.
AloneAt(b, done) ==
    [f \in Feats |-> [i \in Preds |-> [j \in Preds |->
        RefSum(0, IF f \in done THEN b ELSE b - 1, f, i, j)]]]

\* Every repetition's cov_b is what its own progress gives from the inputs,
\* whatever the other repetitions have done.
EachAsIfAlone ==
    \A r \in Reps :
        /\ pcA[r] = "block" =>
             cov_bA[r] = AloneAt(blockA[r], {f \in Feats : featA[r][f] = "done"})
        /\ pcA[r] = "done" => cov_bA[r] = RefCov(0) /\ cov_out[r] = RefCov(0)

\* The state of repetition r.
RepState(r) == <<pcA[r], blockA[r], cov_bA[r], featA[r], cov_out[r]>>

\* While the repetitions run, the inputs are not written, a step writes the
\* state of one repetition at most, and a repetition that starts has a cov_b
\* of zeros.
NoSharedWrites ==
    /\ <<resid, x_pinv, block_ids, n_blocks>>' = <<resid, x_pinv, block_ids, n_blocks>>
    /\ \A r1, r2 \in Reps :
         (RepState(r1)' # RepState(r1) /\ RepState(r2)' # RepState(r2)) => r1 = r2
    /\ \A r \in Reps : (pcA[r] = "idle" /\ pcA'[r] # "idle") => cov_bA'[r] = Zeros

\* C31: in Variant A the repetitions that run concurrently share no mutable
\* state: each writes only its own cov_b, zeroed at its start, and reads only
\* the inputs, which nothing writes; so every repetition ends with the
\* accumulator of a repetition run alone.
C31_RepetitionsIndependent ==
    /\ [](variant = "A" => EachAsIfAlone)
    /\ [][(variant = "A" /\ pcMain = "outer") => NoSharedWrites]_vars

\* Two repetitions are in their block loops at once, at different blocks,
\* each with a slice being written, and their accumulators differ.
C31_TwoRepetitionsInterleaved ==
    /\ variant = "A"
    /\ pcA[1] = "block" /\ pcA[2] = "block"
    /\ blockA[1] # blockA[2]
    /\ \E f \in Feats : featA[1][f] = "busy"
    /\ \E f \in Feats : featA[2][f] = "busy"
    /\ cov_bA[1] # cov_bA[2]

(***************************************************************************)
(* C32                                                                     *)
(***************************************************************************)
\* The MockData that was saved.
Saved == [n_blocks |-> n_blocks, block_ids |-> block_ids, x_pinv |-> x_pinv, resid |-> resid]

\* C32: a MockData written with save_npz_file and read back with
\* from_npz_file comes back with n_blocks, block_ids, x_pinv and resid equal
\* to the originals, the read does not panic, and save_npz_file leaves the
\* MockData unchanged.
C32_NpzRoundTrip ==
    /\ [](/\ pcMain # "aborted"
          /\ pcMain = "loaded" => loaded = Some(Saved))
    /\ [][Saved' = Saved]_vars

\* A MockData of a 64-bit build whose labels include usize::MAX and 0 has
\* been written and read back.
C32_LargestLabelReadBack ==
    /\ pcMain = "loaded"
    /\ usize_limbs = U64Limbs
    /\ \E o \in DOMAIN block_ids : block_ids[o] = [i \in 1 .. U64Limbs |-> 65535]
    /\ \E o \in DOMAIN block_ids : block_ids[o] = UsizeZero(U64Limbs)
    /\ n_blocks[U64Limbs] # 0
    /\ npz # None
    /\ loaded # None

====
